---- MODULE Spec2Model ----
(***************************************************************************)
(* Room coordination and broadcast relay.                                  *)
(*                                                                         *)
(* Two relays are modelled: the full relay (the socket server at the end   *)
(* of src/frontend/components/Loading.tsx) and the minimal relay           *)
(* (src/server/server.js).  The variable relay says which of the two       *)
(* servers is running; it never changes.  Every socket handler is one      *)
(* action, run to completion (the servers run on one event loop).          *)
(***************************************************************************)
EXTENDS Naturals, Integers, Sequences, FiniteSets, TLC

(***************************************************************************)
(* Input domains.                                                          *)
(***************************************************************************)
Sockets == {"s1", "s2", "s3"}
UserIds == {"u1", "u2", "u3"}
\* a target id no connection ever joins with
Stranger == "x9"
RoomIds == {"r1", "r2"}
Passwords == {"p1", "p2"}
UserNames == {"n1"}
Backgrounds == {"bg1"}
Shapes == {"pen"}
\* the ids a client puts on what it sends (ids are tuples: the relays' ids
\* have three parts, a client's id is opaque)
ClientIds == {<<"c1">>}
Texts == {"m1"}
Emojis == {"like"}
\* the value of JS null / undefined for ids, passwords and backgrounds
Null == "null"
\* an unset socket.data field (undefined); 0 is falsy like undefined
Unset == 0

\* the wall clock (Date.now(), in ms) at construction
StartTime == 1
\* longest drawing log the model lets a room grow
MaxDrawings == 2
\* longest message list and longest drawing list the model lets a page grow
MaxMessages == 2
MaxClientDrawings == 2

ROOM_TIMEOUT == 30 * 60 * 1000
\* the chat throttle window of chat:send, in ms
CHAT_WINDOW == 1000

VARIABLES
  relay,      \* "full" | "minimal": which server is running
  now,        \* Date.now()
  rooms,      \* the rooms Map: room id -> room object
  sock,       \* per connection: connected, socket.data, joined channels
  emitted,    \* what the last handler emitted: <<[ev, to, body]>>
  last,       \* the last inbound event: [ev, sock, roomId, userId, arg]
  joinOrder,  \* history: per room id, its members in the order they entered
  lastAccepted, \* history: per connection, time of its last relayed chat (0: none)
  wired,      \* whether the meeting page's handlers are attached to the connections
  client,     \* per connection: the state of the meeting page behind it
  page        \* per participant: the MeetingRoom component in that browser

vars ==
  <<relay, now, rooms, sock, emitted, last, joinOrder, lastAccepted, wired, client,
    page>>

(***************************************************************************)
(* JS Map / Set, which iterate in insertion order.                         *)
(***************************************************************************)
Range(f) == {f[i] : i \in DOMAIN f}

MapKeys(m) == {m[i].id : i \in DOMAIN m}

MapHas(m, k) == k \in MapKeys(m)

MapIndex(m, k) == CHOOSE i \in DOMAIN m : m[i].id = k

\* Map.prototype.set: a present key keeps its place, a new key goes last
MapSet(m, k, v) ==
  IF MapHas(m, k) THEN [m EXCEPT ![MapIndex(m, k)] = v] ELSE Append(m, v)

\* Map.prototype.delete
MapDelete(m, k) == SelectSeq(m, LAMBDA e : e.id # k)

\* Set.prototype.add on an insertion-ordered Set of ids
SetAdd(q, x) == IF x \in Range(q) THEN q ELSE Append(q, x)

\* Set.prototype.delete
SetDelete(q, x) == SelectSeq(q, LAMBDA e : e # x)

(***************************************************************************)
(* Rooms.                                                                  *)
(***************************************************************************)
\* a mutant of NewRoom: the created room keeps a host id
NewRoomWithHost(t) ==
  [locked |-> FALSE, password |-> Null, hostId |-> "u1", members |-> <<>>,
   whiteboardDrawings |-> <<>>, whiteboardBackground |-> Null,
   allowedUsers |-> {}, lastActivity |-> t, handRaised |-> {}]

\* the room object getOrCreateRoom creates in the full relay
NewRoom(t) ==
  [locked |-> FALSE, password |-> Null, hostId |-> Null, members |-> <<>>,
   whiteboardDrawings |-> <<>>, whiteboardBackground |-> Null,
   allowedUsers |-> {}, lastActivity |-> t, handRaised |-> {}]

\* the room object getOrCreateRoom creates in the minimal relay
MinNewRoom(t) ==
  [locked |-> FALSE, password |-> Null, hostId |-> Null, members |-> <<>>,
   lastActivity |-> t]

MapPut(rs, k, v) == [x \in DOMAIN rs \cup {k} |-> IF x = k THEN v ELSE rs[x]]

MapRemove(rs, ks) == [x \in DOMAIN rs \ ks |-> rs[x]]

\* getOrCreateRoom without the refresh of lastActivity
getOrCreateRoomNoTouch(rs, roomId, t) ==
  IF roomId \in DOMAIN rs THEN rs ELSE MapPut(rs, roomId, NewRoom(t))

\* the rooms Map after getOrCreateRoom(roomId) at time t (full relay)
getOrCreateRoom(rs, roomId, t) ==
  IF roomId \in DOMAIN rs
  THEN [rs EXCEPT ![roomId].lastActivity = t]
  ELSE MapPut(rs, roomId, NewRoom(t))

\* the rooms Map after getOrCreateRoom(roomId) at time t (minimal relay)
MinGetOrCreateRoom(rs, roomId, t) ==
  IF roomId \in DOMAIN rs
  THEN [rs EXCEPT ![roomId].lastActivity = t]
  ELSE MapPut(rs, roomId, MinNewRoom(t))

(***************************************************************************)
(* Connections and audiences.                                              *)
(***************************************************************************)
\* socket.data before any successful join
NoData == [userId |-> "", roomId |-> "", userName |-> "", lastChatTime |-> Unset]

\* the guard every handler but join-room starts with
\* the session guard passing for every open connection
HasSessionIfConnected(s) == sock[s].connected

HasSession(s) == sock[s].data.userId # "" /\ sock[s].data.roomId # ""

\* io.to(ch): the connected sockets that joined channel ch
InChannel(ss, ch) == {x \in Sockets : ss[x].connected /\ ch \in ss[x].channels}

\* socket.to(ch): the same, without the sender
Others(ss, s, ch) == InChannel(ss, ch) \ {s}

\* a mutant of Emit: every emission goes to all connections (io.emit)
EmitToAll(ev, to, body) == [ev |-> ev, to |-> Sockets, body |-> body]

\* one emission: the event name, the connections it goes to, its payload
Emit(ev, to, body) == [ev |-> ev, to |-> to, body |-> body]

NoBody == [none |-> TRUE]

Event(ev, s, roomId, userId, arg) ==
  [ev |-> ev, sock |-> s, roomId |-> roomId, userId |-> userId, arg |-> arg]

(***************************************************************************)
(* The meeting page (the client half of Loading.tsx): its whiteboard and   *)
(* chat state, and the handlers it attaches to its connection (the board   *)
(* is taken to be open, so that its listeners are attached).  Three fields *)
(* are history: applied, the drawing ids the page has put on its board;    *)
(* drew, whether the page's connection has sent a whiteboard event; and    *)
(* stream, the drawings the connection was sent since the last replay or   *)
(* clear: the replayed log followed by the live drawings (kept as long as  *)
(* the connection has sent no whiteboard event itself).                    *)
(***************************************************************************)
NewClient ==
  [drawings |-> <<>>, receivedDrawingIds |-> {}, backgroundImage |-> Null,
   messages |-> <<>>, receivedMessageIds |-> {}, outbox |-> <<>>,
   applied |-> {}, drew |-> FALSE, stream |-> <<>>]

DrawingIdsOf(ds) == {ds[i].id : i \in DOMAIN ds}

\* on 'whiteboard:drawing'
handleDrawing(c, data) ==
  IF data.drawing.id \in c.receivedDrawingIds THEN c
  ELSE [c EXCEPT !.receivedDrawingIds = @ \cup {data.drawing.id},
                 !.drawings = Append(@, data.drawing),
                 !.applied = @ \cup {data.drawing.id}]

\* on 'whiteboard:clear'
handleClear(c) ==
  [c EXCEPT !.drawings = <<>>, !.backgroundImage = Null,
            !.receivedDrawingIds = {}]

\* on 'whiteboard:state'
handleWhiteboardState(c, data) ==
  [c EXCEPT !.drawings = data.drawings,
            !.backgroundImage = data.background,
            !.receivedDrawingIds = @ \cup DrawingIdsOf(data.drawings),
            !.applied = @ \cup DrawingIdsOf(data.drawings)]

\* on 'whiteboard:background'
handleBackground(c, data) == [c EXCEPT !.backgroundImage = data.background]

\* on 'chat:receive'
OnChatReceive(c, msg) ==
  IF msg.id \in c.receivedMessageIds THEN c
  ELSE [c EXCEPT !.receivedMessageIds = @ \cup {msg.id},
                 !.messages = Append(@, msg)]

\* handleSendMessage: the message is shown at once and emitted as chat:send
handleSendMessage(c, msg) ==
  [c EXCEPT !.messages = Append(@, msg), !.outbox = Append(@, msg)]

\* the ChatPanel's processedMessages, the list the panel shows: the first
\* message of every id (the isMe mark it adds is read by no property)
processedMessages(messages) ==
  LET first == SelectSeq([i \in DOMAIN messages |-> i],
                         LAMBDA i : \A j \in 1..(i - 1) :
                                      messages[j].id # messages[i].id)
  IN [k \in DOMAIN first |-> messages[first[k]]]

\* the page's handler for one emission
Handle(c, e) ==
  CASE e.ev = "whiteboard:drawing" -> handleDrawing(c, e.body)
    [] e.ev = "whiteboard:clear" -> handleClear(c)
    [] e.ev = "whiteboard:state" -> handleWhiteboardState(c, e.body)
    [] e.ev = "whiteboard:background" -> handleBackground(c, e.body)
    [] e.ev = "chat:receive" -> OnChatReceive(c, e.body)
    [] OTHER -> c

\* history: the drawings a connection was sent, after one more emission
Heard(c, e) ==
  CASE c.drew -> c
    [] e.ev = "whiteboard:state" -> [c EXCEPT !.stream = e.body.drawings]
    [] e.ev = "whiteboard:drawing" -> [c EXCEPT !.stream = Append(@, e.body.drawing)]
    [] e.ev = "whiteboard:clear" -> [c EXCEPT !.stream = <<>>]
    [] OTHER -> c

\* the pages after the emissions out reached them, in the order emitted
RECURSIVE Delivered(_, _)
Delivered(cl, out) ==
  IF out = <<>> THEN cl
  ELSE Delivered([x \in Sockets |->
                    IF x \in Head(out).to
                    THEN Heard(Handle(cl[x], Head(out)), Head(out))
                    ELSE cl[x]],
                 Tail(out))

WhiteboardEvents ==
  {"whiteboard:drawing", "whiteboard:background", "whiteboard:clear"}

\* the pages once the server has taken the event evt off its connection
Handled(cl, evt) ==
  IF evt.ev = "chat:send" /\ cl[evt.sock].outbox # <<>>
  THEN [cl EXCEPT ![evt.sock].outbox = Tail(@)]
  ELSE IF evt.ev \in WhiteboardEvents
  THEN [cl EXCEPT ![evt.sock].drew = TRUE, ![evt.sock].stream = <<>>]
  ELSE cl

(***************************************************************************)
(* The MeetingRoom component of one participant's browser (Loading.tsx     *)
(* 1214-1476): the state its socket effect and its handlers read and set.  *)
(* status is "new" before the component is mounted, "open" while it is,    *)
(* "closed" once the participant left the meeting.  sock is the connection *)
(* the current run of the socket effect created, needJoin whether that     *)
(* connection has still to emit its join-room, isHost the value of isHost  *)
(* the current run of the effect was started with, and closing the         *)
(* connections the effect's cleanups have disconnected whose disconnect    *)
(* the server has not handled yet.  board is the whiteboard component,     *)
(* which exists only while localShowWhiteboard holds.  asked is history:   *)
(* the participant this component asked the server to make host.  late is  *)
(* history too: whether the snapshot the component's last join-room was    *)
(* answered with held drawings, that is, whether it joined after drawings  *)
(* were made.                                                              *)
(***************************************************************************)
NewPage ==
  [status |-> "new", sock |-> "", needJoin |-> FALSE, isHost |-> FALSE,
   closing |-> {}, hostId |-> Null, canDraw |-> FALSE,
   whiteboardEnabled |-> FALSE, localShowWhiteboard |-> FALSE,
   board |-> NewClient, asked |-> Null, late |-> FALSE]

\* the handlers the socket effect attaches (Loading.tsx 1353-1423), and the
\* whiteboard component's own while it is mounted (196-259)
PageOn(p, u, e) ==
  CASE e.ev = "room-state" ->
         [p EXCEPT !.hostId = e.body.hostId,
                   !.canDraw = \/ ("canDraw" \in DOMAIN e.body /\ e.body.canDraw)
                               \/ e.body.hostId = u]
    [] e.ev = "host:changed" ->
         [p EXCEPT !.hostId = e.body.newHostId,
                   !.canDraw = IF e.body.newHostId = u THEN TRUE ELSE @]
    [] e.ev = "whiteboard:user-permission" ->
         IF e.body.userId = u THEN [p EXCEPT !.canDraw = e.body.canDraw] ELSE p
    [] e.ev = "whiteboard:enable" ->
         [p EXCEPT !.whiteboardEnabled = TRUE, !.localShowWhiteboard = TRUE]
    [] e.ev = "whiteboard:disable" ->
         [p EXCEPT !.whiteboardEnabled = FALSE, !.localShowWhiteboard = FALSE,
                   !.board = NewClient]
    [] e.ev = "whiteboard:state" ->
         [p EXCEPT !.late = e.body.drawings # <<>>,
                   !.board = IF p.localShowWhiteboard THEN Handle(@, e) ELSE @]
    [] e.ev \in {"whiteboard:drawing", "whiteboard:clear",
                 "whiteboard:background"} ->
         IF p.localShowWhiteboard THEN [p EXCEPT !.board = Handle(@, e)] ELSE p
    [] OTHER -> p

\* the drawing a participant makes on the board
PageDrawing == [id |-> <<"c1">>, kind |-> "pen"]

\* what the component does when it emits the event evt (toggleWhiteboard
\* 1577-1596, the whiteboard's stopDrawing 575-581, handleMakeHost 1624)
PageEmits(p, u, evt) ==
  CASE evt.ev = "join-room" -> [p EXCEPT !.needJoin = FALSE]
    [] evt.ev = "host:make-host" -> [p EXCEPT !.asked = evt.userId]
    [] evt.ev = "whiteboard:enable" ->
         [p EXCEPT !.whiteboardEnabled = TRUE, !.localShowWhiteboard = TRUE]
    [] evt.ev = "whiteboard:disable" ->
         [p EXCEPT !.whiteboardEnabled = FALSE, !.localShowWhiteboard = FALSE,
                   !.board = NewClient]
    [] evt.ev = "whiteboard:drawing" ->
         [p EXCEPT !.board.drawings = Append(@, PageDrawing),
                   !.board.drew = TRUE]
    [] OTHER -> p

\* the components once the server has taken the event evt off its
\* connection: the sender's component has done its part, and a disconnect
\* is no longer outstanding
PageSent(pg, evt) ==
  [u \in UserIds |->
     IF evt.ev = "disconnect"
     THEN [pg[u] EXCEPT !.closing = @ \ {evt.sock}]
     ELSE IF pg[u].status = "open" /\ pg[u].sock = evt.sock
     THEN PageEmits(pg[u], u, evt)
     ELSE pg[u]]

\* the components after the emissions out reached them, in the order
\* emitted: a component hears what is sent to its current connection
RECURSIVE PagesHear(_, _)
PagesHear(pg, out) ==
  IF out = <<>> THEN pg
  ELSE PagesHear([u \in UserIds |->
                    IF pg[u].status = "open" /\ pg[u].sock \in Head(out).to
                    THEN PageOn(pg[u], u, Head(out))
                    ELSE pg[u]],
                 Tail(out))

\* the participants whose component has been mounted
Mounted == {u \in UserIds : page[u].status # "new"}

(***************************************************************************)
(* Initial state: the server is up, no connection, no room.                *)
(***************************************************************************)
Boot ==
  /\ relay \in {"full", "minimal"}
  /\ now = StartTime
  /\ rooms = [x \in {} |-> x]
  /\ sock = [s \in Sockets |-> [connected |-> FALSE, data |-> NoData, channels |-> {}]]
  /\ emitted = <<>>
  /\ last = Event("init", "", "", "", "")
  /\ joinOrder = [r \in RoomIds |-> <<>>]
  /\ lastAccepted = [s \in Sockets |-> 0]
  /\ client = [s \in Sockets |-> NewClient]
  /\ page = [u \in UserIds |-> NewPage]

\* the relay driven by bare connections
Init == Boot /\ wired = FALSE

\* the relay with a meeting page behind every connection
InitWired == Boot /\ wired = TRUE

\* io.on('connection'): a new connection; it is in the channel of its own id
Connected(s) ==
  /\ ~sock[s].connected
  /\ sock' = [sock EXCEPT ![s] = [connected |-> TRUE, data |-> NoData, channels |-> {s}]]
  /\ lastAccepted' = [lastAccepted EXCEPT ![s] = 0]
  /\ emitted' = <<>>
  /\ last' = Event("connection", s, "", "", "")
  /\ client' = [client EXCEPT ![s] = NewClient]
  /\ UNCHANGED <<relay, now, rooms, joinOrder, wired>>

\* a connection nobody's MeetingRoom component made
Connect(s) == Connected(s) /\ UNCHANGED page

\* time passes: the clock moves to a later instant t
Advance(t) ==
  /\ t > now
  /\ now' = t
  /\ emitted' = <<>>
  /\ last' = Event("advance", "", "", "", "")
  /\ UNCHANGED <<relay, rooms, sock, joinOrder, lastAccepted, wired, client, page>>

\* history: the join order after id u entered / left
Entered(q, u) == IF u \in Range(q) THEN q ELSE Append(q, u)

Left(q, u) == SelectSeq(q, LAMBDA e : e # u)

\* what a handler leaves behind: the rooms Map, the sockets, its emissions
Step(evt, rs, ss, out) ==
  /\ rooms' = rs
  /\ sock' = ss
  /\ emitted' = out
  /\ last' = evt
  /\ client' = IF wired THEN Delivered(Handled(client, evt), out) ELSE client
  /\ page' = IF Mounted = {} THEN page ELSE PagesHear(PageSent(page, evt), out)
  /\ UNCHANGED <<relay, now, wired>>

\* a handler that returned at its first line: nothing happens
Ignored(evt) ==
  /\ Step(evt, rooms, sock, <<>>)
  /\ UNCHANGED <<joinOrder, lastAccepted>>

(***************************************************************************)
(* Member records of the full relay.                                       *)
(***************************************************************************)
\* a mutant of SetModerator: the flag is set and never cleared
SetModeratorOnly(m, k, b) ==
  IF MapHas(m, k) THEN [m EXCEPT ![MapIndex(m, k)].isModerator = TRUE] ELSE m

\* member.isModerator = b, when the Map has the member
SetModerator(m, k, b) ==
  IF MapHas(m, k) THEN [m EXCEPT ![MapIndex(m, k)].isModerator = b] ELSE m

SetCanDraw(m, k, b) ==
  IF MapHas(m, k) THEN [m EXCEPT ![MapIndex(m, k)].canDraw = b] ELSE m

SetHandRaised(m, k, b) ==
  IF MapHas(m, k) THEN [m EXCEPT ![MapIndex(m, k)].handRaised = b] ELSE m

\* the room-state payload of the full relay's join-room
RoomState(room, userId) ==
  [locked |-> room.locked, hostId |-> room.hostId, members |-> room.members,
   canDraw |-> userId \in room.allowedUsers]

\* the room-state payload of the failover broadcast (it carries no canDraw)
FailoverState(room) ==
  [locked |-> room.locked, hostId |-> room.hostId, members |-> room.members]

\* a mutant of PasswordRejected: a locked room admits nobody but its host
PasswordRejectedAnyPassword(room, userId, password) ==
  room.locked /\ room.hostId # Null /\ room.hostId # userId

\* join-room's password check: true when the join is turned away
PasswordRejected(room, userId, password) ==
  room.locked /\ room.hostId # Null /\ room.hostId # userId
  /\ room.password # password

\* a mutant of IsHost: every member of the room passes the host check
IsHostAnyMember(room, userId) == MapHas(room.members, userId)

\* the host check of the full relay's handlers
IsHost(room, userId) == room.hostId = userId

(***************************************************************************)
(* The full relay's handlers.                                              *)
(***************************************************************************)
\* socket.on('join-room')
JoinRoom(s, roomId, userId, userName, password) ==
  LET evt == Event("join-room", s, roomId, userId, password)
      rs1 == getOrCreateRoom(rooms, roomId, now)
      room == rs1[roomId]
      room2 == IF room.hostId = Null
               THEN [room EXCEPT !.hostId = userId,
                                 !.allowedUsers = @ \cup {userId}]
               ELSE room
      member == [id |-> userId, name |-> userName,
                 isModerator |-> room2.hostId = userId,
                 canDraw |-> userId \in room2.allowedUsers,
                 handRaised |-> userId \in room2.handRaised]
      room3 == [room2 EXCEPT !.members = MapSet(@, userId, member)]
      ss == [sock EXCEPT ![s].channels = @ \cup {roomId},
                         ![s].data = [userId |-> userId, roomId |-> roomId,
                                      userName |-> userName,
                                      lastChatTime |-> Unset]]
  IN /\ relay = "full"
     /\ sock[s].connected
     /\ IF roomId = "" \/ userId = ""
        THEN /\ Step(evt, rooms, sock,
                     <<Emit("error", {s}, [message |-> "Invalid room or user ID"])>>)
             /\ UNCHANGED joinOrder
        ELSE IF PasswordRejected(room, userId, password)
        THEN /\ Step(evt, rs1, sock,
                     <<Emit("error:password-required", {s}, NoBody)>>)
             /\ UNCHANGED joinOrder
        ELSE /\ Step(evt, MapPut(rs1, roomId, room3), ss,
                     <<Emit("room-state", {s}, RoomState(room3, userId)),
                       Emit("whiteboard:state", {s},
                            [drawings |-> room3.whiteboardDrawings,
                             background |-> room3.whiteboardBackground]),
                       Emit("room-members", Others(ss, s, roomId),
                            [members |-> room3.members])>>)
             /\ joinOrder' = [joinOrder EXCEPT ![roomId] = Entered(@, userId)]
     /\ UNCHANGED lastAccepted

\* socket.on('room:lock')
RoomLock(s, roomId, password) ==
  LET evt == Event("room:lock", s, roomId, "", password)
      rs1 == getOrCreateRoom(rooms, roomId, now)
      room == rs1[roomId]
  IN /\ relay = "full"
     /\ sock[s].connected
     /\ IF ~HasSession(s) THEN Ignored(evt)
        ELSE /\ IF IsHost(room, sock[s].data.userId) /\ password # ""
                THEN Step(evt,
                          [rs1 EXCEPT ![roomId].locked = TRUE,
                                      ![roomId].password = password],
                          sock,
                          <<Emit("room:locked", InChannel(sock, roomId), NoBody)>>)
                ELSE Step(evt, rs1, sock, <<>>)
             /\ UNCHANGED <<joinOrder, lastAccepted>>

\* socket.on('room:unlock')
RoomUnlock(s, roomId) ==
  LET evt == Event("room:unlock", s, roomId, "", "")
      rs1 == getOrCreateRoom(rooms, roomId, now)
      room == rs1[roomId]
  IN /\ relay = "full"
     /\ sock[s].connected
     /\ IF ~HasSession(s) THEN Ignored(evt)
        ELSE /\ IF IsHost(room, sock[s].data.userId)
                THEN Step(evt,
                          [rs1 EXCEPT ![roomId].locked = FALSE,
                                      ![roomId].password = Null],
                          sock,
                          <<Emit("room:unlocked", InChannel(sock, roomId), NoBody)>>)
                ELSE Step(evt, rs1, sock, <<>>)
             /\ UNCHANGED <<joinOrder, lastAccepted>>

\* a mutant of ThrottleOpen: only the first send of a connection passes
ThrottleOpenOnce(lastChatTime, t) == lastChatTime = Unset

\* chat:send's rate limit: true when the send may pass
ThrottleOpen(lastChatTime, t) ==
  lastChatTime = Unset \/ t - lastChatTime > CHAT_WINDOW

\* the id the relays give a chat message, a drawing or a reaction
ServerId(userId, t, rnd) == <<userId, t, rnd>>

\* a chat:send payload without a message object
NoMessage == [id |-> <<>>, text |-> Null]

\* socket.on('chat:send'); message is the client's object, or NoMessage
ChatSend(s, roomId, message, rnd) ==
  LET evt == Event("chat:send", s, roomId, "", message.text)
      data == sock[s].data
  IN /\ relay = "full"
     /\ sock[s].connected
     /\ IF ~HasSession(s) THEN Ignored(evt)
        ELSE IF ThrottleOpen(data.lastChatTime, now)
        THEN IF message = NoMessage
             THEN \* message.id = ... throws, the catch reports it
                  /\ Step(evt, rooms, sock,
                          <<Emit("error", {s}, [message |-> "Failed to send message"])>>)
                  /\ UNCHANGED <<joinOrder, lastAccepted>>
             ELSE /\ Step(evt, rooms,
                          [sock EXCEPT ![s].data.lastChatTime = now],
                          <<Emit("chat:receive", InChannel(sock, roomId),
                                 [id |-> ServerId(data.userId, now, rnd),
                                  text |-> message.text, isMe |-> FALSE])>>)
                  /\ lastAccepted' = [lastAccepted EXCEPT ![s] = now]
                  /\ UNCHANGED joinOrder
        ELSE /\ Step(evt, rooms, sock,
                     <<Emit("error", {s}, [message |-> "Message rate limit exceeded"])>>)
             /\ UNCHANGED <<joinOrder, lastAccepted>>

\* socket.on('whiteboard:enable')
WhiteboardEnable(s, roomId) ==
  LET evt == Event("whiteboard:enable", s, roomId, "", "")
      rs1 == getOrCreateRoom(rooms, roomId, now)
  IN /\ relay = "full"
     /\ sock[s].connected
     /\ IF ~HasSession(s) THEN Ignored(evt)
        ELSE /\ IF IsHost(rs1[roomId], sock[s].data.userId)
                THEN Step(evt, rs1, sock,
                          <<Emit("whiteboard:enable", InChannel(sock, roomId), NoBody)>>)
                ELSE Step(evt, rs1, sock, <<>>)
             /\ UNCHANGED <<joinOrder, lastAccepted>>

\* socket.on('whiteboard:disable')
WhiteboardDisable(s, roomId) ==
  LET evt == Event("whiteboard:disable", s, roomId, "", "")
      rs1 == getOrCreateRoom(rooms, roomId, now)
  IN /\ relay = "full"
     /\ sock[s].connected
     /\ IF ~HasSession(s) THEN Ignored(evt)
        ELSE /\ IF IsHost(rs1[roomId], sock[s].data.userId)
                THEN Step(evt, rs1, sock,
                          <<Emit("whiteboard:disable", InChannel(sock, roomId), NoBody)>>)
                ELSE Step(evt, rs1, sock, <<>>)
             /\ UNCHANGED <<joinOrder, lastAccepted>>

\* a mutant of MayDraw: every member of the room may draw
MayDrawAnyMember(room, userId) == MapHas(room.members, userId)

\* the whiteboard handlers' permission check
MayDraw(room, userId) == userId \in room.allowedUsers

\* socket.on('whiteboard:drawing'); drawing is the client's object
WhiteboardDrawing(s, roomId, drawing, rnd) ==
  LET evt == Event("whiteboard:drawing", s, roomId, "", drawing.kind)
      rs1 == getOrCreateRoom(rooms, roomId, now)
      room == rs1[roomId]
      stored == [drawing EXCEPT !.id = ServerId(sock[s].data.userId, now, rnd)]
  IN /\ relay = "full"
     /\ sock[s].connected
     /\ IF ~HasSession(s) THEN Ignored(evt)
        ELSE /\ IF MayDraw(room, sock[s].data.userId)
                THEN /\ Len(room.whiteboardDrawings) < MaxDrawings
                     /\ Step(evt,
                             [rs1 EXCEPT ![roomId].whiteboardDrawings =
                                            Append(@, stored)],
                             sock,
                             <<Emit("whiteboard:drawing", Others(sock, s, roomId),
                                    [drawing |-> stored])>>)
                ELSE Step(evt, rs1, sock, <<>>)
             /\ UNCHANGED <<joinOrder, lastAccepted>>

\* socket.on('whiteboard:background')
WhiteboardBackground(s, roomId, background) ==
  LET evt == Event("whiteboard:background", s, roomId, "", background)
      rs1 == getOrCreateRoom(rooms, roomId, now)
      room == rs1[roomId]
  IN /\ relay = "full"
     /\ sock[s].connected
     /\ IF ~HasSession(s) THEN Ignored(evt)
        ELSE /\ IF MayDraw(room, sock[s].data.userId)
                THEN Step(evt,
                          [rs1 EXCEPT ![roomId].whiteboardBackground = background],
                          sock,
                          <<Emit("whiteboard:background", Others(sock, s, roomId),
                                 [background |-> background])>>)
                ELSE Step(evt, rs1, sock, <<>>)
             /\ UNCHANGED <<joinOrder, lastAccepted>>

\* socket.on('whiteboard:clear')
WhiteboardClear(s, roomId) ==
  LET evt == Event("whiteboard:clear", s, roomId, "", "")
      rs1 == getOrCreateRoom(rooms, roomId, now)
      room == rs1[roomId]
  IN /\ relay = "full"
     /\ sock[s].connected
     /\ IF ~HasSession(s) THEN Ignored(evt)
        ELSE /\ IF MayDraw(room, sock[s].data.userId)
                THEN Step(evt,
                          [rs1 EXCEPT ![roomId].whiteboardDrawings = <<>>,
                                      ![roomId].whiteboardBackground = Null],
                          sock,
                          <<Emit("whiteboard:clear", Others(sock, s, roomId), NoBody)>>)
                ELSE Step(evt, rs1, sock, <<>>)
             /\ UNCHANGED <<joinOrder, lastAccepted>>

\* socket.on('whiteboard:allow-user')
WhiteboardAllowUser(s, roomId, userId, allow) ==
  LET evt == Event("whiteboard:allow-user", s, roomId, userId,
                   IF allow THEN "allow" ELSE "deny")
      rs1 == getOrCreateRoom(rooms, roomId, now)
      room == rs1[roomId]
      room2 == [room EXCEPT
                  !.allowedUsers = IF allow THEN @ \cup {userId} ELSE @ \ {userId},
                  !.members = SetCanDraw(@, userId, allow)]
  IN /\ relay = "full"
     /\ sock[s].connected
     /\ IF ~HasSession(s) THEN Ignored(evt)
        ELSE /\ IF IsHost(room, sock[s].data.userId)
                THEN Step(evt, MapPut(rs1, roomId, room2), sock,
                          <<Emit("whiteboard:user-permission", InChannel(sock, roomId),
                                 [userId |-> userId, canDraw |-> allow]),
                            Emit("room-members", InChannel(sock, roomId),
                                 [members |-> room2.members])>>)
                ELSE Step(evt, rs1, sock, <<>>)
             /\ UNCHANGED <<joinOrder, lastAccepted>>

\* socket.on('host:make-host')
MakeHost(s, roomId, userId) ==
  LET evt == Event("host:make-host", s, roomId, userId, "")
      rs1 == getOrCreateRoom(rooms, roomId, now)
      room == rs1[roomId]
      room2 == [room EXCEPT
                  !.hostId = userId,
                  !.members = SetModerator(SetModerator(@, room.hostId, FALSE),
                                           userId, TRUE),
                  !.allowedUsers = @ \cup {userId}]
  IN /\ relay = "full"
     /\ sock[s].connected
     /\ IF ~HasSession(s) THEN Ignored(evt)
        ELSE /\ IF IsHost(room, sock[s].data.userId)
                THEN Step(evt, MapPut(rs1, roomId, room2), sock,
                          <<Emit("host:changed", InChannel(sock, roomId),
                                 [newHostId |-> userId]),
                            Emit("room-members", InChannel(sock, roomId),
                                 [members |-> room2.members])>>)
                ELSE Step(evt, rs1, sock, <<>>)
             /\ UNCHANGED <<joinOrder, lastAccepted>>

\* socket.on('hand:raise')
HandRaise(s, roomId) ==
  LET evt == Event("hand:raise", s, roomId, "", "")
      rs1 == getOrCreateRoom(rooms, roomId, now)
      me == sock[s].data.userId
      room2 == [rs1[roomId] EXCEPT !.handRaised = @ \cup {me},
                                   !.members = SetHandRaised(@, me, TRUE)]
  IN /\ relay = "full"
     /\ sock[s].connected
     /\ IF ~HasSession(s) THEN Ignored(evt)
        ELSE /\ Step(evt, MapPut(rs1, roomId, room2), sock,
                     <<Emit("hand:raised", InChannel(sock, roomId),
                            [userId |-> me, userName |-> sock[s].data.userName]),
                       Emit("room-members", InChannel(sock, roomId),
                            [members |-> room2.members])>>)
             /\ UNCHANGED <<joinOrder, lastAccepted>>

\* socket.on('hand:lower')
HandLower(s, roomId) ==
  LET evt == Event("hand:lower", s, roomId, "", "")
      rs1 == getOrCreateRoom(rooms, roomId, now)
      me == sock[s].data.userId
      room2 == [rs1[roomId] EXCEPT !.handRaised = @ \ {me},
                                   !.members = SetHandRaised(@, me, FALSE)]
  IN /\ relay = "full"
     /\ sock[s].connected
     /\ IF ~HasSession(s) THEN Ignored(evt)
        ELSE /\ Step(evt, MapPut(rs1, roomId, room2), sock,
                     <<Emit("hand:lowered", InChannel(sock, roomId), [userId |-> me]),
                       Emit("room-members", InChannel(sock, roomId),
                            [members |-> room2.members])>>)
             /\ UNCHANGED <<joinOrder, lastAccepted>>

\* socket.on('hand:lower-all')
HandLowerAll(s, roomId) ==
  LET evt == Event("hand:lower-all", s, roomId, "", "")
      rs1 == getOrCreateRoom(rooms, roomId, now)
      room == rs1[roomId]
      room2 == [room EXCEPT
                  !.handRaised = {},
                  !.members = [i \in DOMAIN @ |-> [@[i] EXCEPT !.handRaised = FALSE]]]
  IN /\ relay = "full"
     /\ sock[s].connected
     /\ IF ~HasSession(s) THEN Ignored(evt)
        ELSE /\ IF IsHost(room, sock[s].data.userId)
                THEN Step(evt, MapPut(rs1, roomId, room2), sock,
                          <<Emit("hand:lowered-all", InChannel(sock, roomId), NoBody),
                            Emit("room-members", InChannel(sock, roomId),
                                 [members |-> room2.members])>>)
                ELSE Step(evt, rs1, sock, <<>>)
             /\ UNCHANGED <<joinOrder, lastAccepted>>

\* socket.on('moderator:mute-user'): the signal goes to the channel named userId
ModeratorMuteUser(s, roomId, userId) ==
  LET evt == Event("moderator:mute-user", s, roomId, userId, "")
      rs1 == getOrCreateRoom(rooms, roomId, now)
  IN /\ relay = "full"
     /\ sock[s].connected
     /\ IF ~HasSession(s) THEN Ignored(evt)
        ELSE /\ IF IsHost(rs1[roomId], sock[s].data.userId)
                THEN Step(evt, rs1, sock,
                          <<Emit("moderator:force-mute", Others(sock, s, userId), NoBody)>>)
                ELSE Step(evt, rs1, sock, <<>>)
             /\ UNCHANGED <<joinOrder, lastAccepted>>

\* socket.on('moderator:remove-user')
ModeratorRemoveUser(s, roomId, userId) ==
  LET evt == Event("moderator:remove-user", s, roomId, userId, "")
      rs1 == getOrCreateRoom(rooms, roomId, now)
  IN /\ relay = "full"
     /\ sock[s].connected
     /\ IF ~HasSession(s) THEN Ignored(evt)
        ELSE /\ IF IsHost(rs1[roomId], sock[s].data.userId)
                THEN Step(evt, rs1, sock,
                          <<Emit("moderator:force-leave", Others(sock, s, userId), NoBody)>>)
                ELSE Step(evt, rs1, sock, <<>>)
             /\ UNCHANGED <<joinOrder, lastAccepted>>

\* socket.on('reaction:send'); reaction is the client's object
ReactionSend(s, roomId, reaction, rnd) ==
  LET evt == Event("reaction:send", s, roomId, "", reaction.emoji)
  IN /\ relay = "full"
     /\ sock[s].connected
     /\ IF ~HasSession(s) THEN Ignored(evt)
        ELSE /\ Step(evt, rooms, sock,
                     <<Emit("reaction:send", Others(sock, s, roomId),
                            [reaction EXCEPT
                               !.id = ServerId(sock[s].data.userId, now, rnd)])>>)
             /\ UNCHANGED <<joinOrder, lastAccepted>>

\* a mutant of Successor: the last remaining member is promoted
SuccessorLast(remainingIds) ==
  IF Len(remainingIds) > 0 THEN remainingIds[Len(remainingIds)] ELSE Null

\* the failover pick: remainingMembers[0], or null when nobody is left
Successor(remainingIds) ==
  IF Len(remainingIds) > 0 THEN remainingIds[1] ELSE Null

\* the connection s once closed: socket.io has taken it out of its channels
\* before the disconnect handler runs
Closed(s) ==
  [sock EXCEPT ![s] = [connected |-> FALSE, data |-> NoData, channels |-> {}]]

\* a mutant of Departed: only the member entry is deleted
DepartedKeepsGrants(room, userId) ==
  [room EXCEPT !.members = MapDelete(@, userId)]

\* the room once the disconnect handler has deleted the participant from
\* its members, its draw-permission set and its raised hands
Departed(room, userId) ==
  [room EXCEPT !.members = MapDelete(@, userId),
               !.allowedUsers = @ \ {userId},
               !.handRaised = @ \ {userId}]

\* socket.on('disconnect')
Disconnect(s) ==
  LET evt == Event("disconnect", s, sock[s].data.roomId, sock[s].data.userId, "")
      roomId == sock[s].data.roomId
      userId == sock[s].data.userId
      ss == Closed(s)
      room == rooms[roomId]
      room1 == Departed(room, userId)
      wasHost == room1.hostId = userId
      newHost == Successor([i \in DOMAIN room1.members |-> room1.members[i].id])
      room2 == IF ~wasHost THEN room1
               ELSE IF newHost # Null
               THEN [room1 EXCEPT !.hostId = newHost,
                                  !.members = SetModerator(@, newHost, TRUE),
                                  !.allowedUsers = @ \cup {newHost}]
               ELSE [room1 EXCEPT !.hostId = Null]
      failover == IF ~wasHost THEN <<>>
                  ELSE IF newHost # Null
                  THEN <<Emit("room-state", InChannel(ss, roomId), FailoverState(room2))>>
                  ELSE <<Emit("whiteboard:disable", InChannel(ss, roomId), NoBody)>>
  IN /\ relay = "full"
     /\ sock[s].connected
     /\ lastAccepted' = [lastAccepted EXCEPT ![s] = 0]
     /\ IF HasSession(s) /\ roomId \in DOMAIN rooms
        THEN /\ IF Len(room2.members) > 0
                THEN Step(evt, MapPut(rooms, roomId, room2), ss,
                          failover \o <<Emit("room-members", InChannel(ss, roomId),
                                             [members |-> room2.members])>>)
                ELSE Step(evt, MapRemove(rooms, {roomId}), ss, failover)
             /\ joinOrder' = [joinOrder EXCEPT ![roomId] =
                                IF Len(room2.members) > 0 THEN Left(@, userId) ELSE <<>>]
        ELSE /\ Step(evt, rooms, ss, <<>>)
             /\ UNCHANGED joinOrder

\* a mutant of Expired: a room is swept as soon as the timeout is reached
ExpiredInclusive(room, t) ==
  room.lastActivity # 0 /\ t - room.lastActivity >= ROOM_TIMEOUT

\* the sweep's test of one room
Expired(room, t) ==
  room.lastActivity # 0 /\ t - room.lastActivity > ROOM_TIMEOUT

\* the setInterval callback (the cleanup scheduler of both relays)
Sweep ==
  LET gone == {r \in DOMAIN rooms : Expired(rooms[r], now)}
  IN /\ rooms' = MapRemove(rooms, gone)
     /\ joinOrder' = [r \in RoomIds |-> IF r \in gone THEN <<>> ELSE joinOrder[r]]
     /\ emitted' = <<>>
     /\ last' = Event("sweep", "", "", "", "")
     /\ UNCHANGED <<relay, now, sock, lastAccepted, wired, client, page>>

(***************************************************************************)
(* The minimal relay's handlers (src/server/server.js).  Its members are a *)
(* Set of ids; it keeps no whiteboard, permission or raised-hand state.    *)
(***************************************************************************)
\* socket.on('join-room')
MinJoinRoom(s, roomId, userId, password) ==
  LET evt == Event("join-room", s, roomId, userId, password)
      rs1 == MinGetOrCreateRoom(rooms, roomId, now)
      room == rs1[roomId]
      room2 == IF room.hostId = Null THEN [room EXCEPT !.hostId = userId] ELSE room
      room3 == [room2 EXCEPT !.members = SetAdd(@, userId)]
      ss == [sock EXCEPT ![s].channels = @ \cup {roomId},
                         ![s].data = [userId |-> userId, roomId |-> roomId,
                                      userName |-> "", lastChatTime |-> Unset]]
  IN /\ relay = "minimal"
     /\ sock[s].connected
     /\ IF roomId = "" \/ userId = ""
        THEN /\ Step(evt, rooms, sock,
                     <<Emit("error", {s}, [message |-> "Invalid room or user ID"])>>)
             /\ UNCHANGED joinOrder
        ELSE IF PasswordRejected(room, userId, password)
        THEN /\ Step(evt, rs1, sock,
                     <<Emit("error:password-required", {s}, NoBody)>>)
             /\ UNCHANGED joinOrder
        ELSE /\ Step(evt, MapPut(rs1, roomId, room3), ss,
                     <<Emit("room-state", {s}, FailoverState(room3)),
                       Emit("room-members", InChannel(ss, roomId),
                            [members |-> room3.members])>>)
             /\ joinOrder' = [joinOrder EXCEPT ![roomId] = Entered(@, userId)]
     /\ UNCHANGED lastAccepted

\* socket.on('room:lock')
MinRoomLock(s, roomId, password) ==
  LET evt == Event("room:lock", s, roomId, "", password)
      rs1 == MinGetOrCreateRoom(rooms, roomId, now)
  IN /\ relay = "minimal"
     /\ sock[s].connected
     /\ IF ~HasSession(s) THEN Ignored(evt)
        ELSE /\ IF rs1[roomId].hostId = sock[s].data.userId /\ password # ""
                THEN Step(evt,
                          [rs1 EXCEPT ![roomId].locked = TRUE,
                                      ![roomId].password = password],
                          sock,
                          <<Emit("room:locked", InChannel(sock, roomId), NoBody)>>)
                ELSE Step(evt, rs1, sock, <<>>)
             /\ UNCHANGED <<joinOrder, lastAccepted>>

\* socket.on('room:unlock')
MinRoomUnlock(s, roomId) ==
  LET evt == Event("room:unlock", s, roomId, "", "")
      rs1 == MinGetOrCreateRoom(rooms, roomId, now)
  IN /\ relay = "minimal"
     /\ sock[s].connected
     /\ IF ~HasSession(s) THEN Ignored(evt)
        ELSE /\ IF rs1[roomId].hostId = sock[s].data.userId
                THEN Step(evt,
                          [rs1 EXCEPT ![roomId].locked = FALSE,
                                      ![roomId].password = Null],
                          sock,
                          <<Emit("room:unlocked", InChannel(sock, roomId), NoBody)>>)
                ELSE Step(evt, rs1, sock, <<>>)
             /\ UNCHANGED <<joinOrder, lastAccepted>>

\* socket.on('chat:send'); message is the client's object, or NoMessage
MinChatSend(s, roomId, message) ==
  LET evt == Event("chat:send", s, roomId, "", message.text)
      data == sock[s].data
  IN /\ relay = "minimal"
     /\ sock[s].connected
     /\ IF ~HasSession(s) THEN Ignored(evt)
        ELSE IF message = NoMessage
        THEN /\ Step(evt, rooms, sock,
                     <<Emit("error", {s}, [message |-> "Invalid message format"])>>)
             /\ UNCHANGED <<joinOrder, lastAccepted>>
        ELSE IF ThrottleOpen(data.lastChatTime, now)
        THEN /\ Step(evt, rooms,
                     [sock EXCEPT ![s].data.lastChatTime = now],
                     <<Emit("chat:receive", InChannel(sock, roomId), message)>>)
             /\ lastAccepted' = [lastAccepted EXCEPT ![s] = now]
             /\ UNCHANGED joinOrder
        ELSE /\ Step(evt, rooms, sock,
                     <<Emit("error", {s}, [message |-> "Message rate limit exceeded"])>>)
             /\ UNCHANGED <<joinOrder, lastAccepted>>

\* socket.on('whiteboard:enable')
MinWhiteboardEnable(s, roomId) ==
  LET evt == Event("whiteboard:enable", s, roomId, "", "")
      rs1 == MinGetOrCreateRoom(rooms, roomId, now)
  IN /\ relay = "minimal"
     /\ sock[s].connected
     /\ IF ~HasSession(s) THEN Ignored(evt)
        ELSE /\ IF rs1[roomId].hostId = sock[s].data.userId
                THEN Step(evt, rs1, sock,
                          <<Emit("whiteboard:enable", InChannel(sock, roomId), NoBody)>>)
                ELSE Step(evt, rs1, sock, <<>>)
             /\ UNCHANGED <<joinOrder, lastAccepted>>

\* socket.on('whiteboard:disable')
MinWhiteboardDisable(s, roomId) ==
  LET evt == Event("whiteboard:disable", s, roomId, "", "")
      rs1 == MinGetOrCreateRoom(rooms, roomId, now)
  IN /\ relay = "minimal"
     /\ sock[s].connected
     /\ IF ~HasSession(s) THEN Ignored(evt)
        ELSE /\ IF rs1[roomId].hostId = sock[s].data.userId
                THEN Step(evt, rs1, sock,
                          <<Emit("whiteboard:disable", InChannel(sock, roomId), NoBody)>>)
                ELSE Step(evt, rs1, sock, <<>>)
             /\ UNCHANGED <<joinOrder, lastAccepted>>

\* whiteboard:sync's check: only the host's commands are relayed
MinMaySync(room, userId) == room.hostId = userId

\* socket.on('whiteboard:sync')
MinWhiteboardSync(s, roomId, command) ==
  LET evt == Event("whiteboard:sync", s, roomId, "", command)
      rs1 == MinGetOrCreateRoom(rooms, roomId, now)
  IN /\ relay = "minimal"
     /\ sock[s].connected
     /\ IF ~HasSession(s) THEN Ignored(evt)
        ELSE /\ IF MinMaySync(rs1[roomId], sock[s].data.userId)
                THEN Step(evt, rs1, sock,
                          <<Emit("whiteboard:sync", Others(sock, s, roomId),
                                 [roomId |-> roomId, command |-> command,
                                  senderId |-> sock[s].data.userId])>>)
                ELSE Step(evt, rs1, sock, <<>>)
             /\ UNCHANGED <<joinOrder, lastAccepted>>

\* socket.on('disconnect')
MinDisconnect(s) ==
  LET evt == Event("disconnect", s, sock[s].data.roomId, sock[s].data.userId, "")
      roomId == sock[s].data.roomId
      userId == sock[s].data.userId
      ss == Closed(s)
      room == rooms[roomId]
      room1 == [room EXCEPT !.members = SetDelete(@, userId)]
      wasHost == room1.hostId = userId
      room2 == IF wasHost THEN [room1 EXCEPT !.hostId = Successor(room1.members)]
               ELSE room1
      failover == IF ~wasHost THEN <<>>
                  ELSE IF room2.hostId = Null
                  THEN <<Emit("whiteboard:disable", InChannel(ss, roomId), NoBody)>>
                  ELSE <<Emit("room-state", InChannel(ss, roomId), FailoverState(room2))>>
  IN /\ relay = "minimal"
     /\ sock[s].connected
     /\ lastAccepted' = [lastAccepted EXCEPT ![s] = 0]
     /\ IF HasSession(s) /\ roomId \in DOMAIN rooms
        THEN /\ Step(evt, MapPut(rooms, roomId, room2), ss,
                     failover \o <<Emit("room-members", InChannel(ss, roomId),
                                        [members |-> room2.members])>>)
             /\ joinOrder' = [joinOrder EXCEPT ![roomId] = Left(@, userId)]
        ELSE /\ Step(evt, rooms, ss, <<>>)
             /\ UNCHANGED joinOrder

(***************************************************************************)
(* Specifications.  Each draws the inbound events from small sets; the     *)
(* identity provider fixes who a connection is: s1 is u1, s2 is u2, and s3 *)
(* is u3 or a second connection of u1.                                     *)
(***************************************************************************)
UsersOf(s) ==
  CASE s = "s1" -> {"u1"}
    [] s = "s2" -> {"u2"}
    [] OTHER -> {"u3", "u1"}

TwoSockets == {"s1", "s2"}
OneRoom == {"r1"}
ClientDrawings == [id : ClientIds, kind : Shapes]
ClientMessages == [id : ClientIds, text : Texts]
ClientReactions == [id : ClientIds, emoji : Emojis]

\* SpecHost: membership and host authority, three connections, one room
NextHost ==
  \/ \E s \in Sockets : Connect(s)
  \/ \E s \in Sockets, r \in OneRoom : \E u \in UsersOf(s) :
       JoinRoom(s, r, u, "n1", Null)
  \/ \E s \in Sockets, r \in OneRoom, u \in UserIds \cup {Stranger} :
       MakeHost(s, r, u)
  \/ \E s \in Sockets : Disconnect(s)
  \/ \E s \in Sockets, r \in OneRoom : \E u \in UsersOf(s) :
       MinJoinRoom(s, r, u, Null)
  \/ \E s \in Sockets : MinDisconnect(s)

SpecHost == Init /\ [][NextHost]_vars

\* the instant at which a room untouched since construction has expired
ExpiryTime == StartTime + ROOM_TIMEOUT + 1

\* SpecLock: locking and joining, two connections, one room, two passwords
NextLock ==
  \/ \E s \in TwoSockets : Connect(s)
  \/ \E s \in TwoSockets, r \in OneRoom, p \in Passwords \cup {Null} :
       \E u \in UsersOf(s) : JoinRoom(s, r, u, "n1", p)
  \/ \E s \in TwoSockets, r \in OneRoom, p \in Passwords \cup {""} :
       RoomLock(s, r, p)
  \/ \E s \in TwoSockets, r \in OneRoom : RoomUnlock(s, r)
  \/ \E s \in TwoSockets, r \in OneRoom, u \in {"u1", "u2", Stranger} :
       MakeHost(s, r, u)
  \/ \E s \in TwoSockets : Disconnect(s)
  \/ \E s \in TwoSockets, r \in OneRoom, p \in Passwords \cup {Null} :
       \E u \in UsersOf(s) : MinJoinRoom(s, r, u, p)
  \/ \E s \in TwoSockets, r \in OneRoom, p \in Passwords \cup {""} :
       MinRoomLock(s, r, p)
  \/ \E s \in TwoSockets, r \in OneRoom : MinRoomUnlock(s, r)
  \/ \E s \in TwoSockets : MinDisconnect(s)
  \/ Advance(ExpiryTime)
  \/ Sweep

SpecLock == Init /\ [][NextLock]_vars

\* the rooms a connection is sent to: s1 to r1, the others to r1 or r2
RoomsOf(s) == IF s = "s1" THEN {"r1"} ELSE {"r1", "r2"}

\* SpecBoard: the whiteboard and its permissions, two connections, two rooms
NextBoard ==
  \/ \E s \in TwoSockets : Connect(s)
  \/ \E s \in TwoSockets : \E r \in RoomsOf(s), u \in UsersOf(s) :
       JoinRoom(s, r, u, "n1", Null)
  \/ \E s \in TwoSockets, r \in RoomIds, d \in ClientDrawings :
       WhiteboardDrawing(s, r, d, "k1")
  \/ \E s \in TwoSockets, r \in OneRoom, b \in Backgrounds :
       WhiteboardBackground(s, r, b)
  \/ \E s \in TwoSockets, r \in RoomIds : WhiteboardClear(s, r)
  \/ \E s \in TwoSockets, r \in OneRoom, u \in {"u1", "u2"}, a \in BOOLEAN :
       WhiteboardAllowUser(s, r, u, a)
  \/ \E s \in TwoSockets : Disconnect(s)
  \/ \E s \in TwoSockets : \E r \in RoomsOf(s), u \in UsersOf(s) :
       MinJoinRoom(s, r, u, Null)
  \/ \E s \in TwoSockets, r \in RoomIds : MinWhiteboardSync(s, r, "draw")
  \/ \E s \in TwoSockets : MinDisconnect(s)

SpecBoard == Init /\ [][NextBoard]_vars

\* the instants the clock visits in SpecClock: around the chat window after
\* the start, and around the room timeout after the start and after a
\* refresh one window later
ClockInstants ==
  {StartTime + 900, StartTime + CHAT_WINDOW, StartTime + 1100,
   StartTime + ROOM_TIMEOUT - 1000, StartTime + ROOM_TIMEOUT,
   StartTime + ROOM_TIMEOUT + 1,
   StartTime + CHAT_WINDOW + ROOM_TIMEOUT + 1}

\* SpecClock: the chat throttle and the sweep, two connections, one room
NextClock ==
  \/ \E s \in TwoSockets : Connect(s)
  \/ \E s \in TwoSockets, r \in OneRoom : \E u \in UsersOf(s) :
       JoinRoom(s, r, u, "n1", Null)
  \/ \E s \in TwoSockets, r \in OneRoom, m \in ClientMessages \cup {NoMessage} :
       ChatSend(s, r, m, "k1")
  \/ \E s \in TwoSockets, r \in OneRoom, e \in ClientReactions :
       ReactionSend(s, r, e, "k1")
  \/ \E s \in TwoSockets, r \in OneRoom : WhiteboardEnable(s, r)
  \/ \E s \in TwoSockets : Disconnect(s)
  \/ \E s \in TwoSockets, r \in OneRoom : \E u \in UsersOf(s) :
       MinJoinRoom(s, r, u, Null)
  \/ \E s \in TwoSockets, r \in OneRoom, m \in ClientMessages \cup {NoMessage} :
       MinChatSend(s, r, m)
  \/ \E s \in TwoSockets, r \in OneRoom : MinWhiteboardEnable(s, r)
  \/ \E s \in TwoSockets : MinDisconnect(s)
  \/ \E t \in ClockInstants : Advance(t)
  \/ Sweep

SpecClock == Init /\ [][NextClock]_vars

\* SpecGate: every gated event of the full relay, two connections, one room;
\* the hand that goes up is u2's
NextGate ==
  \/ \E s \in TwoSockets : Connect(s)
  \/ \E s \in TwoSockets, r \in OneRoom : \E u \in UsersOf(s) :
       JoinRoom(s, r, u, "n1", Null)
  \/ \E s \in TwoSockets, r \in OneRoom, p \in {"p1", ""} : RoomLock(s, r, p)
  \/ \E s \in TwoSockets, r \in OneRoom : RoomUnlock(s, r)
  \/ \E s \in TwoSockets, r \in OneRoom : WhiteboardEnable(s, r)
  \/ \E s \in TwoSockets, r \in OneRoom : WhiteboardDisable(s, r)
  \/ \E s \in TwoSockets, r \in OneRoom, d \in ClientDrawings :
       WhiteboardDrawing(s, r, d, "k1")
  \/ \E s \in TwoSockets, r \in OneRoom, b \in Backgrounds :
       WhiteboardBackground(s, r, b)
  \/ \E s \in TwoSockets, r \in OneRoom : WhiteboardClear(s, r)
  \/ \E s \in TwoSockets, r \in OneRoom, u \in {"u1", "u2"}, a \in BOOLEAN :
       WhiteboardAllowUser(s, r, u, a)
  \/ \E s \in TwoSockets, r \in OneRoom, u \in {"u1", "u2"} : MakeHost(s, r, u)
  \/ \E s \in {"s2"}, r \in OneRoom : HandRaise(s, r)
  \/ \E s \in TwoSockets, r \in OneRoom : HandLowerAll(s, r)
  \/ \E s \in TwoSockets, r \in OneRoom, u \in {"u1", "u2"} :
       ModeratorMuteUser(s, r, u)
  \/ \E s \in TwoSockets, r \in OneRoom, u \in {"u1", "u2"} :
       ModeratorRemoveUser(s, r, u)
  \/ \E s \in TwoSockets : Disconnect(s)

\* the full relay alone: the server of Loading.tsx is the one started
InitFull == Init /\ relay = "full"

SpecGate == InitFull /\ [][NextGate]_vars

\* SpecFrame: events that are turned away; two connections that join r1, and
\* an unlock may name r2, which is not in the registry
NextFrame ==
  \/ \E s \in TwoSockets : Connect(s)
  \/ \E s \in TwoSockets, r \in OneRoom, p \in {"p1", Null} :
       \E u \in UsersOf(s) \cup {""} : JoinRoom(s, r, u, "n1", p)
  \/ \E s \in TwoSockets, r \in OneRoom, p \in {"p1", ""} : RoomLock(s, r, p)
  \/ \E s \in TwoSockets, r \in RoomIds : RoomUnlock(s, r)
  \/ \E s \in TwoSockets, r \in OneRoom, u \in {"u2"}, a \in BOOLEAN :
       WhiteboardAllowUser(s, r, u, a)
  \/ \E s \in TwoSockets, r \in OneRoom : HandRaise(s, r)
  \/ \E s \in TwoSockets, r \in OneRoom : HandLowerAll(s, r)
  \/ \E s \in TwoSockets, r \in OneRoom, b \in Backgrounds :
       WhiteboardBackground(s, r, b)
  \/ \E s \in TwoSockets, r \in OneRoom, m \in ClientMessages \cup {NoMessage} :
       ChatSend(s, r, m, "k1")
  \/ \E s \in TwoSockets : Disconnect(s)
  \/ \E s \in TwoSockets, r \in OneRoom, p \in {"p1", Null} :
       \E u \in UsersOf(s) \cup {""} : MinJoinRoom(s, r, u, p)
  \/ \E s \in TwoSockets, r \in OneRoom, p \in {"p1", ""} : MinRoomLock(s, r, p)
  \/ \E s \in TwoSockets, r \in RoomIds : MinRoomUnlock(s, r)
  \/ \E s \in TwoSockets, r \in OneRoom, m \in ClientMessages \cup {NoMessage} :
       MinChatSend(s, r, m)
  \/ \E s \in TwoSockets, r \in OneRoom : MinWhiteboardSync(s, r, "draw")
  \/ \E s \in TwoSockets : MinDisconnect(s)

SpecFrame == Init /\ [][NextFrame]_vars

\* SpecAbsent: events that name a room which is not in the registry: never
\* created (r2), deleted when it emptied, or evicted by the sweep
NextAbsent ==
  \/ \E s \in TwoSockets : Connect(s)
  \/ \E s \in TwoSockets, r \in OneRoom : \E u \in UsersOf(s) :
       JoinRoom(s, r, u, "n1", Null)
  \/ \E s \in TwoSockets, r \in RoomIds : RoomUnlock(s, r)
  \/ \E s \in TwoSockets, r \in RoomIds : HandRaise(s, r)
  \/ \E s \in TwoSockets, r \in RoomIds : HandLower(s, r)
  \/ \E s \in TwoSockets, r \in RoomIds, m \in ClientMessages :
       ChatSend(s, r, m, "k1")
  \/ \E s \in TwoSockets, r \in RoomIds, e \in ClientReactions :
       ReactionSend(s, r, e, "k1")
  \/ \E s \in TwoSockets : Disconnect(s)
  \/ \E s \in TwoSockets, r \in OneRoom : \E u \in UsersOf(s) :
       MinJoinRoom(s, r, u, Null)
  \/ \E s \in TwoSockets, r \in RoomIds : MinRoomUnlock(s, r)
  \/ \E s \in TwoSockets, r \in RoomIds, m \in ClientMessages :
       MinChatSend(s, r, m)
  \/ \E s \in TwoSockets, r \in RoomIds : MinWhiteboardSync(s, r, "draw")
  \/ \E s \in TwoSockets : MinDisconnect(s)
  \/ Advance(ExpiryTime)
  \/ Sweep

SpecAbsent == Init /\ [][NextAbsent]_vars

\* SpecRooms: two rooms side by side; s1 joins r1, s2 joins r1 or r2, and
\* an event may name either room
NextRooms ==
  \/ \E s \in TwoSockets : Connect(s)
  \/ \E s \in TwoSockets : \E r \in RoomsOf(s), u \in UsersOf(s) :
       JoinRoom(s, r, u, "n1", Null)
  \/ \E s \in TwoSockets, r \in RoomIds, m \in ClientMessages :
       ChatSend(s, r, m, "k1")
  \/ \E s \in TwoSockets, r \in RoomIds, e \in ClientReactions :
       ReactionSend(s, r, e, "k1")
  \/ \E s \in TwoSockets, r \in RoomIds : HandRaise(s, r)
  \/ \E s \in TwoSockets : Disconnect(s)
  \/ \E s \in TwoSockets : \E r \in RoomsOf(s), u \in UsersOf(s) :
       MinJoinRoom(s, r, u, Null)
  \/ \E s \in TwoSockets, r \in RoomIds, m \in ClientMessages :
       MinChatSend(s, r, m)
  \/ \E s \in TwoSockets : MinDisconnect(s)

SpecRooms == Init /\ [][NextRooms]_vars

\* the full relay with a meeting page behind every connection
InitWiredFull == InitWired /\ relay = "full"

\* SpecReplay: the whiteboard as the pages see it; s1 joins r1, s2 joins r1
\* or r2, the whiteboard events name r1 and the drawings come from s1
NextReplay ==
  \/ \E s \in TwoSockets : Connect(s)
  \/ \E s \in TwoSockets : \E r \in RoomsOf(s), u \in UsersOf(s) :
       JoinRoom(s, r, u, "n1", Null)
  \/ \E s \in {"s1"}, r \in OneRoom, d \in ClientDrawings :
       WhiteboardDrawing(s, r, d, "k1")
  \/ \E s \in TwoSockets, r \in OneRoom, b \in Backgrounds :
       WhiteboardBackground(s, r, b)
  \/ \E s \in TwoSockets, r \in OneRoom : WhiteboardClear(s, r)
  \/ \E s \in TwoSockets : Disconnect(s)

SpecReplay == InitWiredFull /\ [][NextReplay]_vars

\* the meeting every page of SpecChat is opened on
MeetingId == "r1"

\* the page behind connection s sends a chat message: it shows it and emits
\* chat:send
PageSends(s, msg) ==
  /\ wired
  /\ sock[s].connected
  /\ client[s].outbox = <<>>
  /\ Len(client[s].messages) < MaxMessages
  /\ client' = [client EXCEPT ![s] = handleSendMessage(@, msg)]
  /\ emitted' = <<>>
  /\ last' = Event("page:send", s, MeetingId, "", msg.text)
  /\ UNCHANGED <<relay, now, rooms, sock, joinOrder, lastAccepted, wired, page>>

\* the full relay receives the chat:send the page behind s emitted
ChatArrives(s, rnd) ==
  /\ client[s].outbox # <<>>
  /\ ChatSend(s, MeetingId, Head(client[s].outbox), rnd)

\* the minimal relay receives the chat:send the page behind s emitted
MinChatArrives(s) ==
  /\ client[s].outbox # <<>>
  /\ MinChatSend(s, MeetingId, Head(client[s].outbox))

\* an instant past the chat window
LaterTime == StartTime + CHAT_WINDOW + 1

\* SpecChat: the chat as the pages see it; two pages on one meeting, either
\* relay
NextChat ==
  \/ \E s \in TwoSockets : Connect(s)
  \/ \E s \in TwoSockets : \E u \in UsersOf(s) :
       JoinRoom(s, MeetingId, u, "n1", Null)
  \/ \E s \in TwoSockets : \E u \in UsersOf(s) :
       MinJoinRoom(s, MeetingId, u, Null)
  \/ \E s \in TwoSockets, m \in ClientMessages : PageSends(s, m)
  \/ \E s \in TwoSockets : ChatArrives(s, "k1")
  \/ \E s \in TwoSockets : MinChatArrives(s)
  \/ \E s \in TwoSockets : Disconnect(s)
  \/ \E s \in TwoSockets : MinDisconnect(s)
  \/ Advance(LaterTime)

SpecChat == InitWired /\ [][NextChat]_vars

\* the drawings a relay may send a page: two stored drawings
SentDrawings ==
  {[id |-> ServerId("u1", StartTime, k), kind |-> "pen"] : k \in {"k1", "k2"}}

\* the drawing logs a whiteboard:state may carry
SentLogs ==
  {<<>>} \cup {<<d>> : d \in SentDrawings}
         \cup {<<p[1], p[2]>> :
                  p \in {q \in SentDrawings \X SentDrawings : q[1] # q[2]}}

\* the whiteboard emissions a page may be sent
SentToBoard ==
  {Emit("whiteboard:drawing", {}, [drawing |-> d]) : d \in SentDrawings}
  \cup {Emit("whiteboard:state", {}, [drawings |-> ds, background |-> Null]) :
          ds \in SentLogs}
  \cup {Emit("whiteboard:clear", {}, NoBody)}

\* the page behind connection s is delivered the emission e, whatever the
\* relay did to send it
Receives(s, e) ==
  /\ wired
  /\ sock[s].connected
  /\ e.ev = "whiteboard:drawing" => Len(client[s].drawings) < MaxClientDrawings
  /\ client' = [client EXCEPT ![s] = Handle(@, e)]
  /\ emitted' = <<Emit(e.ev, {s}, e.body)>>
  /\ last' = Event("deliver", s, "", "", "")
  /\ UNCHANGED <<relay, now, rooms, sock, joinOrder, lastAccepted, wired, page>>

\* SpecPage: the whiteboard of a page under any sequence of deliveries
NextPage ==
  \/ \E s \in TwoSockets : Connect(s)
  \/ \E s \in TwoSockets, e \in SentToBoard : Receives(s, e)

SpecPage == InitWired /\ [][NextPage]_vars

\* the ids a client may put on what it sends, when it picks them freely
ForgedIds == {<<"c1">>, <<"c2">>}

\* the values Math.random() takes in SpecIds
Randoms == {"k1", "k2"}

\* SpecIds: what the relays make of the ids clients supply; two connections,
\* one room, items that differ in their id only
NextIds ==
  \/ \E s \in TwoSockets : Connect(s)
  \/ \E s \in TwoSockets, r \in OneRoom : \E u \in UsersOf(s) :
       JoinRoom(s, r, u, "n1", Null)
  \/ \E s \in TwoSockets, r \in OneRoom, c \in ForgedIds, k \in Randoms :
       ChatSend(s, r, [id |-> c, text |-> "m1"], k)
  \/ \E s \in TwoSockets, r \in OneRoom, c \in ForgedIds, k \in Randoms :
       ReactionSend(s, r, [id |-> c, emoji |-> "like"], k)
  \/ \E s \in TwoSockets, r \in OneRoom, c \in ForgedIds, k \in Randoms :
       WhiteboardDrawing(s, r, [id |-> c, kind |-> "pen"], k)
  \/ \E s \in TwoSockets, r \in OneRoom : WhiteboardClear(s, r)
  \/ \E s \in TwoSockets : Disconnect(s)
  \/ \E s \in TwoSockets, r \in OneRoom : \E u \in UsersOf(s) :
       MinJoinRoom(s, r, u, Null)
  \/ \E s \in TwoSockets, r \in OneRoom, c \in ForgedIds :
       MinChatSend(s, r, [id |-> c, text |-> "m1"])
  \/ \E s \in TwoSockets : MinDisconnect(s)

SpecIds == Init /\ [][NextIds]_vars

\* SpecLeave: what a disconnect leaves behind; two connections in one room
\* that may be locked, drawn on, and hold permissions and raised hands
NextLeave ==
  \/ \E s \in TwoSockets : Connect(s)
  \/ \E s \in TwoSockets, r \in OneRoom, p \in {"p1"} : \E u \in UsersOf(s) :
       JoinRoom(s, r, u, "n1", p)
  \/ \E s \in TwoSockets, r \in OneRoom, p \in {"p1"} : RoomLock(s, r, p)
  \/ \E s \in TwoSockets, r \in OneRoom, u \in {"u1", "u2"}, a \in BOOLEAN :
       WhiteboardAllowUser(s, r, u, a)
  \/ \E s \in TwoSockets, r \in OneRoom : HandRaise(s, r)
  \/ \E s \in TwoSockets, r \in OneRoom, d \in ClientDrawings :
       WhiteboardDrawing(s, r, d, "k1")
  \/ \E s \in TwoSockets, r \in OneRoom, b \in Backgrounds :
       WhiteboardBackground(s, r, b)
  \/ \E s \in TwoSockets : Disconnect(s)
  \/ \E s \in TwoSockets, r \in OneRoom, p \in {"p1"} : \E u \in UsersOf(s) :
       MinJoinRoom(s, r, u, p)
  \/ \E s \in TwoSockets, r \in OneRoom, p \in {"p1"} : MinRoomLock(s, r, p)
  \/ \E s \in TwoSockets : MinDisconnect(s)

SpecLeave == Init /\ [][NextLeave]_vars

\* the connection that tries every event, joined or not
Stray == {"s2"}

\* SpecOutside: every event of either relay from one connection, before and
\* after it joins, next to a connection that joins and locks; joins may lack
\* an id or carry a password
NextOutside ==
  \/ \E s \in TwoSockets : Connect(s)
  \/ \E s \in TwoSockets, r \in OneRoom \cup {""}, p \in {"p1", Null} :
       \E u \in UsersOf(s) \cup {""} : JoinRoom(s, r, u, "n1", p)
  \/ \E s \in TwoSockets, r \in OneRoom : RoomLock(s, r, "p1")
  \/ \E s \in Stray, r \in OneRoom : RoomUnlock(s, r)
  \/ \E s \in Stray, r \in OneRoom, m \in ClientMessages :
       ChatSend(s, r, m, "k1")
  \/ \E s \in Stray, r \in OneRoom : WhiteboardEnable(s, r)
  \/ \E s \in Stray, r \in OneRoom : WhiteboardDisable(s, r)
  \/ \E s \in Stray, r \in OneRoom, d \in ClientDrawings :
       WhiteboardDrawing(s, r, d, "k1")
  \/ \E s \in Stray, r \in OneRoom, b \in Backgrounds :
       WhiteboardBackground(s, r, b)
  \/ \E s \in Stray, r \in OneRoom : WhiteboardClear(s, r)
  \/ \E s \in Stray, r \in OneRoom, a \in BOOLEAN :
       WhiteboardAllowUser(s, r, "u2", a)
  \/ \E s \in Stray, r \in OneRoom : MakeHost(s, r, "u2")
  \/ \E s \in Stray, r \in OneRoom : HandRaise(s, r)
  \/ \E s \in Stray, r \in OneRoom : HandLower(s, r)
  \/ \E s \in Stray, r \in OneRoom : HandLowerAll(s, r)
  \/ \E s \in Stray, r \in OneRoom : ModeratorMuteUser(s, r, "u1")
  \/ \E s \in Stray, r \in OneRoom : ModeratorRemoveUser(s, r, "u1")
  \/ \E s \in Stray, r \in OneRoom, e \in ClientReactions :
       ReactionSend(s, r, e, "k1")
  \/ \E s \in TwoSockets : Disconnect(s)
  \/ \E s \in TwoSockets, r \in OneRoom \cup {""}, p \in {"p1", Null} :
       \E u \in UsersOf(s) \cup {""} : MinJoinRoom(s, r, u, p)
  \/ \E s \in TwoSockets, r \in OneRoom : MinRoomLock(s, r, "p1")
  \/ \E s \in Stray, r \in OneRoom : MinRoomUnlock(s, r)
  \/ \E s \in Stray, r \in OneRoom, m \in ClientMessages :
       MinChatSend(s, r, m)
  \/ \E s \in Stray, r \in OneRoom : MinWhiteboardEnable(s, r)
  \/ \E s \in Stray, r \in OneRoom : MinWhiteboardDisable(s, r)
  \/ \E s \in Stray, r \in OneRoom : MinWhiteboardSync(s, r, "draw")
  \/ \E s \in TwoSockets : MinDisconnect(s)

SpecOutside == Init /\ [][NextOutside]_vars

(***************************************************************************)
(* Claims.                                                                 *)
(***************************************************************************)
Moderators(room) == {i \in DOMAIN room.members : room.members[i].isModerator}

\* C1: in the full relay, after any sequence of join, disconnect and
\* make-host events, every room has at most one member with the host flag,
\* and a room with members has a hostId that is the id of one of them.
C1_SingleHost ==
  relay = "full" =>
    \A r \in DOMAIN rooms :
      /\ Cardinality(Moderators(rooms[r])) <= 1
      /\ rooms[r].members # <<>> =>
           /\ rooms[r].hostId # Null
           /\ MapHas(rooms[r].members, rooms[r].hostId)

\* the ids of a room's members, in Map / Set order, in either relay
MemberIds(room) ==
  IF relay = "full" THEN [i \in DOMAIN room.members |-> room.members[i].id]
  ELSE room.members

\* the step is the disconnect of the host's connection from room r, and it
\* leaves members behind
HostLeaves(r) ==
  /\ last'.ev = "disconnect"
  /\ sock[last'.sock].connected
  /\ HasSession(last'.sock)
  /\ sock[last'.sock].data.roomId = r
  /\ r \in DOMAIN rooms
  /\ rooms[r].hostId = sock[last'.sock].data.userId
  /\ r \in DOMAIN rooms'
  /\ rooms'[r].members # <<>>

\* C2: in both relays, when the host's connection disconnects and members
\* remain, the new hostId is the remaining member that entered the room
\* earliest, never a later joiner.
C2_FailoverEarliest ==
  [][\A r \in RoomIds :
       HostLeaves(r) =>
         /\ joinOrder'[r] # <<>>
         /\ rooms'[r].hostId = Head(joinOrder'[r])]_vars

\* C2 witness: a host left a room in which two members remain, and the
\* failover snapshot was broadcast
C2_Witness ==
  /\ last.ev = "disconnect"
  /\ "r1" \in DOMAIN rooms
  /\ Len(rooms["r1"].members) = 2
  /\ emitted # <<>>
  /\ emitted[1].ev = "room-state"
  /\ rooms["r1"].hostId = Head(joinOrder["r1"])

\* the step is a join-room for room r, which is in the registry and locked
JoinsLocked(r) ==
  /\ last'.ev = "join-room"
  /\ last'.roomId = r
  /\ last'.userId # ""
  /\ r \in DOMAIN rooms
  /\ rooms[r].locked

\* what join-room sends a connection it admits
Admitted(s) ==
  /\ emitted' # <<>>
  /\ emitted'[1].ev = "room-state"
  /\ emitted'[1].to = {s}

DrawSet(room) == IF relay = "full" THEN room.allowedUsers ELSE {}

\* C3: in both relays, a join to a locked room by a participant who is not
\* its host, with no password or a password other than the stored one,
\* fails: password-required goes to the sender only, and the room's
\* members, hostId and draw-permission set stay as they were.
C3_WrongPasswordFails ==
  [][\A r \in RoomIds :
       (JoinsLocked(r) /\ last'.userId # rooms[r].hostId
                       /\ last'.arg # rooms[r].password) =>
         /\ emitted' = <<Emit("error:password-required", {last'.sock}, NoBody)>>
         /\ r \in DOMAIN rooms'
         /\ rooms'[r].members = rooms[r].members
         /\ rooms'[r].hostId = rooms[r].hostId
         /\ DrawSet(rooms'[r]) = DrawSet(rooms[r])]_vars

\* C4: a join to a room the host locked with password p, by a participant
\* who is not the host and presents exactly p, succeeds: the participant is
\* in the room's members afterwards and is sent the room-state snapshot.
C4_RightPasswordJoins ==
  [][\A r \in RoomIds :
       (JoinsLocked(r) /\ last'.userId # rooms[r].hostId
                       /\ last'.arg = rooms[r].password) =>
         /\ r \in DOMAIN rooms'
         /\ last'.userId \in Range(MemberIds(rooms'[r]))
         /\ Admitted(last'.sock)
         /\ emitted'[1].body.locked
         /\ last'.userId \in Range(MemberIds(emitted'[1].body))]_vars

\* C4 witness: a participant who is not the host has just been admitted to
\* a locked room with the stored password
C4_Witness ==
  /\ last.ev = "join-room"
  /\ last.roomId \in DOMAIN rooms
  /\ rooms[last.roomId].locked
  /\ rooms[last.roomId].password = last.arg
  /\ rooms[last.roomId].hostId # last.userId
  /\ rooms[last.roomId].hostId # Null
  /\ last.userId \in Range(MemberIds(rooms[last.roomId]))
  /\ emitted # <<>>
  /\ emitted[1].ev = "room-state"

\* room r has no member left (the full relay has deleted it)
Emptied(r) == r \notin DOMAIN rooms \/ rooms[r].members = <<>>

\* C9: in both relays, the join that follows the disconnect of a room's last
\* member is a join to a fresh room: it needs no password, the room is
\* reported unlocked, the joiner is host, and the full relay replays an
\* empty drawing log and no background.
C9_EmptiedRoomIsFresh ==
  [][\A r \in RoomIds :
       (/\ last.ev = "disconnect" /\ last.roomId = r /\ Emptied(r)
        /\ last'.ev = "join-room" /\ last'.roomId = r /\ last'.userId # "") =>
         /\ Admitted(last'.sock)
         /\ ~emitted'[1].body.locked
         /\ emitted'[1].body.hostId = last'.userId
         /\ relay = "full" =>
              /\ emitted'[2].ev = "whiteboard:state"
              /\ emitted'[2].body.drawings = <<>>
              /\ emitted'[2].body.background = Null]_vars

\* the drawing log and background kept under room id r (none: empty)
DrawingLog(rs, r) == IF r \in DOMAIN rs THEN rs[r].whiteboardDrawings ELSE <<>>

Background(rs, r) == IF r \in DOMAIN rs THEN rs[r].whiteboardBackground ELSE Null

\* the connections other than s that the emissions out reach
ReachedOthers(out, s) == UNION {out[i].to : i \in DOMAIN out} \ {s}

BoardEvents == {"whiteboard:drawing", "whiteboard:background", "whiteboard:clear"}

\* C5: in the full relay a draw, background-set or clear event whose sender
\* is not in the draw-permission set of the room it names leaves every
\* drawing log and background unchanged and reaches no other connection;
\* in the minimal relay a whiteboard:sync whose sender is not the host of
\* the room it names reaches nobody.
C5_DrawGated ==
  [][/\ (/\ relay = "full"
         /\ last'.ev \in BoardEvents
         /\ ~(/\ last'.roomId \in DOMAIN rooms
              /\ sock[last'.sock].data.userId
                   \in rooms[last'.roomId].allowedUsers)) =>
          /\ \A r \in RoomIds :
               /\ DrawingLog(rooms', r) = DrawingLog(rooms, r)
               /\ Background(rooms', r) = Background(rooms, r)
          /\ ReachedOthers(emitted', last'.sock) = {}
     /\ (/\ relay = "minimal"
         /\ last'.ev = "whiteboard:sync"
         /\ ~(/\ last'.roomId \in DOMAIN rooms
              /\ sock[last'.sock].data.userId = rooms[last'.roomId].hostId)) =>
          ReachedOthers(emitted', last'.sock) = {}]_vars

\* C5 witness: a member without draw permission has just sent a drawing to
\* its room, where another connection listens and a drawing is stored
C5_Witness ==
  /\ relay = "full"
  /\ last.ev = "whiteboard:drawing"
  /\ HasSession(last.sock)
  /\ last.roomId = sock[last.sock].data.roomId
  /\ last.roomId \in DOMAIN rooms
  /\ sock[last.sock].data.userId \notin rooms[last.roomId].allowedUsers
  /\ MapHas(rooms[last.roomId].members, sock[last.sock].data.userId)
  /\ Others(sock, last.sock, last.roomId) # {}
  /\ Len(rooms[last.roomId].whiteboardDrawings) = 1
  /\ emitted = <<>>

\* the last handler relayed a chat message
ChatRelayed(out) == out # <<>> /\ out[1].ev = "chat:receive"

\* C6: on one connection a chat send (with a message, from a joined
\* connection) is accepted exactly when no chat send was accepted on that
\* connection before or more than 1000 ms have passed since the last
\* accepted one.
C6_ThrottleWindow ==
  [][(/\ last'.ev = "chat:send"
      /\ last'.arg # Null
      /\ HasSession(last'.sock)) =>
       (ChatRelayed(emitted') <=>
          \/ lastAccepted[last'.sock] = 0
          \/ now - lastAccepted[last'.sock] > 1000)]_vars

\* C7: a sweep tick removes a room exactly when now minus its lastActivity
\* exceeds 1800 s, whoever is still connected; the other rooms stay as
\* they are.
C7_SweepEvictsExpired ==
  [][last'.ev = "sweep" =>
       \A r \in RoomIds :
         /\ r \in DOMAIN rooms' <=>
              (r \in DOMAIN rooms /\ ~(now - rooms[r].lastActivity > 1800 * 1000))
         /\ r \in DOMAIN rooms' => rooms'[r] = rooms[r]]_vars

\* C7 witness: the sweep has just removed a room that a live connection is
\* still bound to, one millisecond after the timeout
C7_Witness ==
  /\ last.ev = "sweep"
  /\ "r1" \notin DOMAIN rooms
  /\ now = ExpiryTime
  /\ \E s \in Sockets :
       sock[s].connected /\ sock[s].data.roomId = "r1" /\ "r1" \in sock[s].channels

\* the named events a connection sends for a room
InboundEvents ==
  {"join-room", "room:lock", "room:unlock", "chat:send", "whiteboard:enable",
   "whiteboard:disable", "whiteboard:drawing", "whiteboard:background",
   "whiteboard:clear", "whiteboard:allow-user", "host:make-host", "hand:raise",
   "hand:lower", "hand:lower-all", "moderator:mute-user",
   "moderator:remove-user", "reaction:send", "whiteboard:sync"}

\* C8: every inbound event for a room from a joined connection, chat send
\* and reaction send included, stamps the room's lastActivity with the
\* current time.
C8_EveryEventRefreshes ==
  [][(/\ last'.ev \in InboundEvents
      /\ HasSession(last'.sock)
      /\ last'.roomId \in DOMAIN rooms) =>
       /\ last'.roomId \in DOMAIN rooms'
       /\ rooms'[last'.roomId].lastActivity = now]_vars

\* the events only the host may send
HostEvents ==
  {"room:lock", "room:unlock", "whiteboard:enable", "whiteboard:disable",
   "whiteboard:allow-user", "host:make-host", "hand:lower-all",
   "moderator:mute-user", "moderator:remove-user"}

\* the step is an event of a joined connection that fails its precondition:
\* a host event from somebody who is not the host of the room it names, a
\* lock with an empty password, or a whiteboard event without permission
RejectedStep ==
  /\ relay = "full"
  /\ HasSession(last'.sock)
  /\ \/ /\ last'.ev \in HostEvents
        /\ ~(/\ last'.roomId \in DOMAIN rooms
             /\ rooms[last'.roomId].hostId = sock[last'.sock].data.userId)
     \/ last'.ev = "room:lock" /\ last'.arg = ""
     \/ /\ last'.ev \in BoardEvents
        /\ ~(/\ last'.roomId \in DOMAIN rooms
             /\ sock[last'.sock].data.userId
                  \in rooms[last'.roomId].allowedUsers)

RoomView(rs, r) ==
  IF r \in DOMAIN rs THEN [rs[r] EXCEPT !.lastActivity = 0]
  ELSE IF relay = "full" THEN NewRoom(0) ELSE MinNewRoom(0)

\* the sender of the step's event is the host of the room the event names
SentByHost ==
  /\ last'.roomId \in DOMAIN rooms
  /\ rooms[last'.roomId].hostId = sock[last'.sock].data.userId

\* the step is an event that fails its precondition: authorization, an
\* empty lock password, a wrong join password or the chat rate limit
Refused ==
  \/ /\ last'.sock \in Sockets
     /\ HasSession(last'.sock)
     /\ \/ last'.ev \in HostEvents \cup {"whiteboard:sync"} /\ ~SentByHost
        \/ last'.ev = "room:lock" /\ last'.arg = ""
        \/ /\ last'.ev \in BoardEvents
           /\ ~(/\ last'.roomId \in DOMAIN rooms
                /\ sock[last'.sock].data.userId
                     \in rooms[last'.roomId].allowedUsers)
        \/ /\ last'.ev = "chat:send"
           /\ last'.arg # Null
           /\ sock[last'.sock].data.lastChatTime # Unset
           /\ now - sock[last'.sock].data.lastChatTime <= 1000
  \/ /\ last'.ev = "join-room"
     /\ last'.userId # ""
     /\ last'.roomId \in DOMAIN rooms
     /\ rooms[last'.roomId].locked
     /\ rooms[last'.roomId].hostId \notin {Null, last'.userId}
     /\ rooms[last'.roomId].password # last'.arg

\* C11: in both relays an event turned away for a failed precondition
\* (authorization, empty lock password, wrong join password, rate limit)
\* leaves every room as it was: locked, password, hostId, members and their
\* flags, draw-permission set, raised hands, drawing log and background are
\* the same before and after.
C11_RefusedChangesNothing ==
  [][Refused => \A r \in RoomIds : RoomView(rooms', r) = RoomView(rooms, r)]_vars

\* C11 witness: a member who is not the host has just sent an unlock to a
\* locked room, which is still locked
C11_Witness ==
  /\ last.ev = "room:unlock"
  /\ HasSession(last.sock)
  /\ last.roomId \in DOMAIN rooms
  /\ rooms[last.roomId].locked
  /\ rooms[last.roomId].password = "p1"
  /\ sock[last.sock].data.userId \in Range(MemberIds(rooms[last.roomId]))
  /\ rooms[last.roomId].hostId # sock[last.sock].data.userId
  /\ emitted = <<>>

ErrorSignals == {"error", "error:password-required"}

\* C12: in both relays every error and password-required signal goes to the
\* connection whose event caused it and to no other connection.
C12_ErrorsLocal ==
  [][\A i \in DOMAIN emitted' :
       emitted'[i].ev \in ErrorSignals => emitted'[i].to = {last'.sock}]_vars

\* C12 witness: a chat inside the throttle window has just been answered
\* with the rate-limit error while another connection listens in the room
C12_Witness ==
  /\ last.ev = "chat:send"
  /\ emitted = <<Emit("error", {last.sock}, [message |-> "Message rate limit exceeded"])>>
  /\ Others(sock, last.sock, last.roomId) # {}

\* the step is a non-join event of a joined connection that names a room
\* which is not in the registry
NamesAbsentRoom ==
  /\ last'.ev \in InboundEvents \ {"join-room"}
  /\ HasSession(last'.sock)
  /\ last'.roomId \notin DOMAIN rooms

\* the events whose handlers never look the room up
Unrouted == {"chat:send", "reaction:send"}

\* C13 as claimed: a non-join event for a room that is not in the registry
\* is silently ignored, and the registry is unchanged.
C13_AbsentRoomIgnored ==
  [][NamesAbsentRoom => rooms' = rooms /\ emitted' = <<>>]_vars

\* C13 as amended: a chat or reaction send for a room that is not in the
\* registry leaves the registry unchanged; every other non-join event adds
\* a fresh room under the id it names (unlocked, no host, no members,
\* stamped now) and leaves the other rooms as they are.
C13_AbsentRoomCreated ==
  [][NamesAbsentRoom =>
       IF last'.ev \in Unrouted THEN rooms' = rooms
       ELSE /\ DOMAIN rooms' = DOMAIN rooms \cup {last'.roomId}
            /\ \A r \in DOMAIN rooms : rooms'[r] = rooms[r]
            /\ ~rooms'[last'.roomId].locked
            /\ rooms'[last'.roomId].password = Null
            /\ rooms'[last'.roomId].hostId = Null
            /\ rooms'[last'.roomId].members = <<>>
            /\ rooms'[last'.roomId].lastActivity = now]_vars

\* C13 witness: the sweep evicted r1 while a connection was bound to it, and
\* that connection's unlock has just put an empty r1 back in the registry
C13_Witness ==
  /\ last.ev = "room:unlock"
  /\ last.roomId = "r1"
  /\ now = ExpiryTime
  /\ sock[last.sock].data.roomId = "r1"
  /\ "r1" \in DOMAIN rooms
  /\ rooms["r1"].members = <<>>
  /\ rooms["r1"].hostId = Null
  /\ rooms["r1"].lastActivity = ExpiryTime

\* C14: in both relays a non-join event from a connection whose session is
\* bound to room R changes no room other than R and is sent only to
\* connections subscribed to R, whatever room id its payload carries.
C14_RoomsIsolated ==
  [][(/\ last'.ev \in InboundEvents \ {"join-room"}
      /\ HasSession(last'.sock)) =>
       /\ \A r \in RoomIds \ {sock[last'.sock].data.roomId} :
            RoomView(rooms', r) = RoomView(rooms, r)
       /\ \A i \in DOMAIN emitted' :
            emitted'[i].to \subseteq
              InChannel(sock, sock[last'.sock].data.roomId)]_vars

\* the member record of id k in room
Member(room, k) == room.members[MapIndex(room.members, k)]

\* the step is a make-host for room r sent by the room's host from a
\* connection bound to r, for a current member other than the host
HostTransfers(r) ==
  /\ relay = "full"
  /\ last'.ev = "host:make-host"
  /\ last'.roomId = r
  /\ HasSession(last'.sock)
  /\ sock[last'.sock].data.roomId = r
  /\ r \in DOMAIN rooms
  /\ rooms[r].hostId = sock[last'.sock].data.userId
  /\ last'.userId # rooms[r].hostId
  /\ MapHas(rooms[r].members, last'.userId)

\* C15: when the host issues make-host for a current member other than
\* itself, afterwards hostId is the target, the target's host flag is set,
\* the caller's is cleared, the target may draw, and host:changed and then
\* the updated member list go to every connection of the room, the
\* caller's included.
C15_MakeHostTransfers ==
  [][\A r \in RoomIds :
       HostTransfers(r) =>
         LET caller == sock[last'.sock].data.userId
             target == last'.userId
             audience == {x \in Sockets : sock[x].connected /\ sock[x].data.roomId = r}
         IN /\ rooms'[r].hostId = target
            /\ MapKeys(rooms'[r].members) = MapKeys(rooms[r].members)
            /\ Member(rooms'[r], target).isModerator
            /\ MapHas(rooms[r].members, caller) =>
                 ~Member(rooms'[r], caller).isModerator
            /\ target \in rooms'[r].allowedUsers
            /\ Len(emitted') = 2
            /\ emitted'[1].ev = "host:changed"
            /\ emitted'[1].body.newHostId = target
            /\ emitted'[2].ev = "room-members"
            /\ emitted'[2].body.members = rooms'[r].members
            /\ \A i \in {1, 2} :
                 /\ last'.sock \in emitted'[i].to
                 /\ audience \subseteq emitted'[i].to]_vars

\* C15 witness: the host of a room of three has just made another member
\* host, and the three connections were told
C15_Witness ==
  /\ relay = "full"
  /\ last.ev = "host:make-host"
  /\ "r1" \in DOMAIN rooms
  /\ Len(rooms["r1"].members) = 3
  /\ rooms["r1"].hostId = last.userId
  /\ last.userId # sock[last.sock].data.userId
  /\ MapHas(rooms["r1"].members, sock[last.sock].data.userId)
  /\ MapHas(rooms["r1"].members, last.userId)
  /\ ~Member(rooms["r1"], sock[last.sock].data.userId).isModerator
  /\ Member(rooms["r1"], last.userId).isModerator
  /\ Len(emitted) = 2
  /\ emitted[1].to = Sockets

\* the connections on which participant u is in room r
ConnectionsOf(u, r) ==
  {x \in Sockets : /\ sock[x].connected
                   /\ sock[x].data.userId = u
                   /\ sock[x].data.roomId = r}

Moderation ==
  [x \in {"moderator:mute-user", "moderator:remove-user"} |->
     IF x = "moderator:mute-user" THEN "moderator:force-mute"
     ELSE "moderator:force-leave"]

\* C16: when the host sends mute-user or remove-user for a member of its
\* room, the force-mute or force-leave signal goes to the connection of that
\* member and to no other connection, and the room is unchanged.
C16_ModerationReachesTarget ==
  [][\A r \in RoomIds :
       (/\ relay = "full"
        /\ last'.ev \in DOMAIN Moderation
        /\ last'.roomId = r
        /\ HasSession(last'.sock)
        /\ sock[last'.sock].data.roomId = r
        /\ r \in DOMAIN rooms
        /\ rooms[r].hostId = sock[last'.sock].data.userId
        /\ last'.userId # rooms[r].hostId
        /\ MapHas(rooms[r].members, last'.userId)
        /\ ConnectionsOf(last'.userId, r) # {}) =>
         /\ emitted' = <<Emit(Moderation[last'.ev],
                              ConnectionsOf(last'.userId, r), NoBody)>>
         /\ RoomView(rooms', r) = RoomView(rooms, r)]_vars

\* the step is a join-room that the full relay admits
JoinAdmitted ==
  /\ relay = "full"
  /\ last'.ev = "join-room"
  /\ emitted' # <<>>
  /\ emitted'[1].ev = "room-state"

\* the connections that only listen: joined, and it never sent a
\* whiteboard event
Watching(x) == sock[x].connected /\ HasSession(x) /\ ~client[x].drew

\* C17: in the full relay an admitted join sends the joining connection the
\* whole drawing log, in the order of the log, and the background, and no
\* live drawing reaches it before them; and for a connection that never
\* draws, the replayed log followed by the live drawings it was sent is, at
\* every later point, the drawing log of its room.
C17_ReplayThenLive ==
  /\ [][JoinAdmitted =>
          /\ Len(emitted') >= 2
          /\ emitted'[2] =
               Emit("whiteboard:state", {last'.sock},
                    [drawings |-> DrawingLog(rooms', last'.roomId),
                     background |-> Background(rooms', last'.roomId)])
          /\ \A i \in DOMAIN emitted' : emitted'[i].ev # "whiteboard:drawing"]_vars
  /\ [](wired =>
          \A x \in Sockets :
            Watching(x) =>
              client[x].stream = DrawingLog(rooms, sock[x].data.roomId))

\* the message list the page behind connection x shows
Shown(cl, x) == processedMessages(cl[x].messages)

\* the step is a chat:send of a page that the full relay accepts
ChatAccepted ==
  /\ wired
  /\ relay = "full"
  /\ last'.ev = "chat:send"
  /\ ChatRelayed(emitted')

\* C18: a chat message the full relay accepts is echoed to every connection
\* of the room, the sender's included, and appears exactly once in every
\* list shown: the list of every other page of the room gains the message,
\* and the sender's list, which shows the message since it was sent, gains
\* nothing by the echo.
C18_ChatShownOnce ==
  [][ChatAccepted =>
       /\ emitted'[1].to = InChannel(sock, last'.roomId)
       /\ last'.sock \in emitted'[1].to
       /\ \A x \in emitted'[1].to :
            Len(Shown(client', x)) =
              Len(Shown(client, x)) + (IF x = last'.sock THEN 0 ELSE 1)]_vars

\* the step delivers to connection s a drawing whose id its page has
\* applied before
Redelivered(s) ==
  /\ last'.ev = "deliver"
  /\ last'.sock = s
  /\ emitted'[1].ev = "whiteboard:drawing"
  /\ emitted'[1].body.drawing.id \in client[s].applied

\* C19: a whiteboard:drawing delivered to a page that has applied a drawing
\* of that id before leaves the page's list of drawings as it was, whatever
\* drawing, whiteboard:state and clear events the page received in between.
C19_ApplyOnce ==
  [][\A s \in Sockets :
       Redelivered(s) => client'[s].drawings = client[s].drawings]_vars

\* the events by which a relay passes on a chat message, a reaction or a
\* drawing
ItemEvents == {"chat:receive", "reaction:send", "whiteboard:drawing"}

\* the id of the item an emission carries
ItemId(e) == IF e.ev = "whiteboard:drawing" THEN e.body.drawing.id ELSE e.body.id

\* the ids a relay can make for connection s at time t
ServerIds(s, t) == {ServerId(sock[s].data.userId, t, k) : k \in Randoms}

\* C20: the id of every chat message, reaction and drawing a relay emits is
\* one the relay made at ingestion, from the sender's user id, the clock and
\* a random part; it is never the id the client put on the item, so two runs
\* that differ in the client's id only emit the same ids.
C20_IdsServerAssigned ==
  [][last'.ev \in {"chat:send", "reaction:send", "whiteboard:drawing"} =>
       \A i \in DOMAIN emitted' :
         emitted'[i].ev \in ItemEvents =>
           /\ ItemId(emitted'[i]) \in ServerIds(last'.sock, now)
           /\ ItemId(emitted'[i]) \notin ForgedIds]_vars

\* what a relay answers a chat send inside the throttle window
RateLimitError(s) == Emit("error", {s}, [message |-> "Message rate limit exceeded"])

\* the step is a chat send that the relay turns away for its rate
RateLimited ==
  /\ last'.ev = "chat:send"
  /\ emitted' = <<RateLimitError(last'.sock)>>

C22_PermissionsMirror ==
  relay = "full" =>
    \A r \in DOMAIN rooms :
      \A i \in DOMAIN rooms[r].members :
        rooms[r].members[i].canDraw <=>
          rooms[r].members[i].id \in rooms[r].allowedUsers

\* C23: in the full relay, in every reachable state in which a room's
\* hostId is the id of one of its members, that id is in the room's
\* draw-permission set.
C23_HostMayDraw ==
  relay = "full" =>
    \A r \in DOMAIN rooms :
      MapHas(rooms[r].members, rooms[r].hostId) =>
        rooms[r].hostId \in rooms[r].allowedUsers

\* C24: in the full relay, in every reachable state, the raised-hands set of
\* every room holds ids of current members of that room only.
C24_RaisedHandsAreMembers ==
  relay = "full" =>
    \A r \in DOMAIN rooms : rooms[r].handRaised \subseteq MapKeys(rooms[r].members)

\* the step is the disconnect of a connection with session (u, r), and r is
\* in the registry
Departs(u, r) ==
  /\ relay = "full"
  /\ last'.ev = "disconnect"
  /\ sock[last'.sock].connected
  /\ sock[last'.sock].data.userId = u
  /\ sock[last'.sock].data.roomId = r
  /\ r \in DOMAIN rooms

\* the step is an admitted join of u to r that comes right after a
\* disconnect of u from r
RejoinsAtOnce(u, r) ==
  /\ relay = "full"
  /\ last.ev = "disconnect" /\ last.userId = u /\ last.roomId = r
  /\ last'.ev = "join-room" /\ last'.userId = u /\ last'.roomId = r
  /\ Admitted(last'.sock)

LeavesBehind(u, r) ==
  /\ last'.ev = "disconnect"
  /\ sock[last'.sock].connected
  /\ sock[last'.sock].data.userId = u
  /\ sock[last'.sock].data.roomId = r
  /\ r \in DOMAIN rooms
  /\ r \in DOMAIN rooms'
  /\ rooms'[r].members # <<>>

\* what a disconnect of u leaves alone in room r, in either relay: lock,
\* password and last activity, the order of the other members, and that
\* hostId moves only when u was the host and only the member list is
\* broadcast when u was not
FrameOfLeave(u, r) ==
  /\ rooms'[r].locked = rooms[r].locked
  /\ rooms'[r].password = rooms[r].password
  /\ rooms'[r].lastActivity = rooms[r].lastActivity
  /\ MemberIds(rooms'[r]) = SelectSeq(MemberIds(rooms[r]), LAMBDA e : e # u)
  /\ rooms[r].hostId # u =>
       /\ rooms'[r].hostId = rooms[r].hostId
       /\ emitted' = <<Emit("room-members", InChannel(sock', r),
                            [members |-> rooms'[r].members])>>

\* what it leaves alone in the full relay: the drawing log, the background,
\* the raised hands and the hand flags of the others
BoardOfLeave(u, r) ==
  /\ rooms'[r].whiteboardDrawings = rooms[r].whiteboardDrawings
  /\ rooms'[r].whiteboardBackground = rooms[r].whiteboardBackground
  /\ rooms'[r].handRaised = rooms[r].handRaised \ {u}
  /\ \A k \in MapKeys(rooms'[r].members) :
       Member(rooms'[r], k).handRaised = Member(rooms[r], k).handRaised

\* C26 as stated: a disconnect that leaves the room with members changes
\* nothing but the entries of the participant who left: lock, password,
\* drawing log, background and the draw permission and hand flags of the
\* others are as before, hostId moves only if the host left, and only the
\* member list is broadcast if it did not.
C26_LeaveChangesOwnEntriesOnly ==
  [][\A u \in UserIds, r \in RoomIds :
       LeavesBehind(u, r) =>
         /\ FrameOfLeave(u, r)
         /\ relay = "full" =>
              /\ BoardOfLeave(u, r)
              /\ rooms'[r].allowedUsers = rooms[r].allowedUsers \ {u}
              /\ \A k \in MapKeys(rooms'[r].members) :
                   Member(rooms'[r], k).canDraw = Member(rooms[r], k).canDraw]_vars

\* the participants a disconnect of u promotes in room r: the new host when
\* u was the host
Promoted(u, r) == IF rooms[r].hostId = u THEN {rooms'[r].hostId} ELSE {}

\* C26 amended: as above, except that when the host left, the successor is
\* added to the draw-permission set; the draw permission of every other
\* member is as before.
C26_LeaveGrantsSuccessor ==
  [][\A u \in UserIds, r \in RoomIds :
       LeavesBehind(u, r) =>
         /\ FrameOfLeave(u, r)
         /\ relay = "full" =>
              /\ BoardOfLeave(u, r)
              /\ rooms'[r].allowedUsers =
                   (rooms[r].allowedUsers \ {u}) \cup Promoted(u, r)
              /\ \A k \in MapKeys(rooms'[r].members) \ Promoted(u, r) :
                   Member(rooms'[r], k).canDraw = Member(rooms[r], k).canDraw]_vars

\* C26 witness: the host has just left a locked room with a drawing and a
\* background; the member who stays has its hand up and had no draw
\* permission of its own
C26_Witness ==
  /\ relay = "full"
  /\ last.ev = "disconnect"
  /\ last.userId = "u1"
  /\ "r1" \in DOMAIN rooms
  /\ rooms["r1"].hostId = "u2"
  /\ rooms["r1"].locked
  /\ Len(rooms["r1"].whiteboardDrawings) = 1
  /\ rooms["r1"].whiteboardBackground # Null
  /\ rooms["r1"].handRaised = {"u2"}
  /\ MapHas(rooms["r1"].members, "u2")
  /\ ~Member(rooms["r1"], "u2").canDraw
  /\ rooms["r1"].allowedUsers = {"u2"}

\* the step is event ev on room r from a joined connection whose user is in
\* the draw-permission set of r
AcceptedOnBoard(ev, r) ==
  /\ last'.ev = ev
  /\ last'.roomId = r
  /\ sock[last'.sock].data.userId # ""
  /\ sock[last'.sock].data.roomId # ""
  /\ r \in DOMAIN rooms
  /\ sock[last'.sock].data.userId \in rooms[r].allowedUsers

\* log1 is log with exactly one operation added at its end
AppendsOne(log, log1) ==
  /\ Len(log1) = Len(log) + 1
  /\ SubSeq(log1, 1, Len(log)) = log

\* C27: in the full relay the drawing log is append-only between clears: an
\* accepted draw appends exactly one operation at the end, an accepted clear
\* empties the log and drops the background together, and no other event
\* changes the log of a room that stays in the registry.
C27_LogAppendOnly ==
  [][relay = "full" =>
       \A r \in RoomIds :
         IF AcceptedOnBoard("whiteboard:drawing", r)
         THEN AppendsOne(DrawingLog(rooms, r), DrawingLog(rooms', r))
         ELSE IF AcceptedOnBoard("whiteboard:clear", r)
         THEN DrawingLog(rooms', r) = <<>> /\ Background(rooms', r) = Null
         ELSE \/ DrawingLog(rooms', r) = DrawingLog(rooms, r)
              \/ r \notin DOMAIN rooms']_vars

\* C27 witness: an accepted draw has just put a second operation, by another
\* participant, behind the first one
C27_Witness ==
  /\ relay = "full"
  /\ last.ev = "whiteboard:drawing"
  /\ "r1" \in DOMAIN rooms
  /\ Len(rooms["r1"].whiteboardDrawings) = 2
  /\ rooms["r1"].whiteboardDrawings[1].id[1] = "u1"
  /\ rooms["r1"].whiteboardDrawings[2].id[1] = "u2"
  /\ rooms["r1"].whiteboardBackground # Null

\* the step is a room:unlock on room r sent by its host
HostUnlocks(r) ==
  /\ last'.ev = "room:unlock"
  /\ last'.roomId = r
  /\ r \in DOMAIN rooms
  /\ sock[last'.sock].data.userId # ""
  /\ sock[last'.sock].data.roomId # ""
  /\ rooms[r].hostId = sock[last'.sock].data.userId

\* the step is a join with both ids to room r, which is in the registry and
\* not locked
JoinsUnlocked(r) ==
  /\ last'.ev = "join-room"
  /\ last'.roomId = r
  /\ last'.userId # ""
  /\ r \in DOMAIN rooms
  /\ ~rooms[r].locked

\* C28: in both relays an unlock by the host clears the locked flag and the
\* stored password; a join to an unlocked room is admitted whatever password
\* it carries; and a participant who is not the host is admitted to a locked
\* room exactly when it presents the password of the latest lock, never an
\* earlier one.
C28_UnlockForgetsPassword ==
  [][\A r \in RoomIds :
       /\ HostUnlocks(r) =>
            /\ r \in DOMAIN rooms'
            /\ ~rooms'[r].locked
            /\ rooms'[r].password = Null
       /\ JoinsUnlocked(r) => Admitted(last'.sock)
       /\ (JoinsLocked(r) /\ last'.userId # rooms[r].hostId) =>
            (Admitted(last'.sock) <=> last'.arg = rooms[r].password)]_vars

\* the last step was a join to room r that was admitted
JoinedJustNow(r) ==
  /\ last.ev = "join-room"
  /\ last.roomId = r
  /\ emitted # <<>>
  /\ emitted[1].ev = "room-state"
  /\ emitted[1].to = {last.sock}

\* C29: a sweep tick and a join for the same room id run one after the
\* other, in either order, and the joiner is in the room the registry holds
\* under that id: an admitted join leaves the joiner a member of the
\* registry's room (a fresh room with the joiner as host when the id was
\* absent, as after an eviction), and a sweep tick that comes right after an
\* admitted join keeps that room as it is.
C29_JoinerInRegistryRoom ==
  [][\A r \in RoomIds :
       /\ (last'.ev = "join-room" /\ last'.roomId = r /\ Admitted(last'.sock)) =>
            /\ r \in DOMAIN rooms'
            /\ last'.userId \in Range(MemberIds(rooms'[r]))
            /\ r \notin DOMAIN rooms =>
                 /\ MemberIds(rooms'[r]) = <<last'.userId>>
                 /\ rooms'[r].hostId = last'.userId
                 /\ ~rooms'[r].locked
       /\ (JoinedJustNow(r) /\ last'.ev = "sweep") =>
            /\ r \in DOMAIN rooms'
            /\ rooms'[r] = rooms[r]]_vars

\* C29 witness: the sweep evicted the room u1 had joined, and u2's join under
\* the same id has just landed in a fresh room of the registry, with u1's
\* connection still holding its session
C29_Witness ==
  /\ last.ev = "join-room"
  /\ last.userId = "u2"
  /\ now = ExpiryTime
  /\ "r1" \in DOMAIN rooms
  /\ MemberIds(rooms["r1"]) = <<"u2">>
  /\ rooms["r1"].hostId = "u2"
  /\ sock["s1"].connected
  /\ sock["s1"].data.userId = "u1"
  /\ sock["s1"].data.roomId = "r1"

\* connection s is open and no join of it was admitted: socket.data was
\* never assigned
NeverJoined(s) == sock[s].connected /\ sock[s].data = NoData

\* every emission of the step goes to connection s alone
OnlyToSender(s) == \A i \in DOMAIN emitted' : emitted'[i].to \subseteq {s}

\* C30: in both relays a connection that never completed a join changes no
\* room and causes no broadcast: every event other than a join that it
\* sends, and its disconnect, leaves the registry as it was and emits
\* nothing; a join with a missing room or user id leaves the registry as it
\* was and answers the sender alone; a join that is not admitted adds no
\* room and no member, changes no field of a room but lastActivity, answers
\* the sender alone and leaves the connection without a session.
C30_OutsiderChangesNothing ==
  [][\A s \in Sockets :
       (last'.sock = s /\ NeverJoined(s)) =>
         /\ last'.ev # "join-room" =>
              /\ rooms' = rooms
              /\ emitted' = <<>>
         /\ (last'.ev = "join-room" /\ (last'.roomId = "" \/ last'.userId = "")) =>
              /\ rooms' = rooms
              /\ emitted' # <<>>
              /\ OnlyToSender(s)
         /\ (last'.ev = "join-room" /\ ~Admitted(s)) =>
              /\ DOMAIN rooms' = DOMAIN rooms
              /\ \A r \in RoomIds : RoomView(rooms', r) = RoomView(rooms, r)
              /\ OnlyToSender(s)
              /\ sock'[s].data = NoData]_vars

\* C30 witness: a connection that was refused at the password and holds no
\* session has just sent a hand:raise to the locked room, where no hand is up
C30_Witness ==
  /\ last.ev = "hand:raise"
  /\ last.sock = "s2"
  /\ NeverJoined("s2")
  /\ emitted = <<>>
  /\ "r1" \in DOMAIN rooms
  /\ rooms["r1"].locked
  /\ rooms["r1"].hostId = "u1"
  /\ MemberIds(rooms["r1"]) = <<"u1">>
  /\ rooms["r1"].handRaised = {}

\* the step is an event (or the disconnect) of a connection whose session
\* is bound to room r, naming r, while r is not in the registry
FromEvicted(r) ==
  /\ last'.ev \in InboundEvents \cup {"disconnect"}
  /\ last'.roomId = r
  /\ sock[last'.sock].connected
  /\ sock[last'.sock].data.userId # ""
  /\ sock[last'.sock].data.roomId = r
  /\ r \notin DOMAIN rooms

\* room is as a lookup creates it: unlocked, no password, no host, no
\* members, and in the full relay an empty drawing log
FreshEmpty(room) ==
  /\ ~room.locked
  /\ room.password = Null
  /\ room.hostId = Null
  /\ room.members = <<>>
  /\ relay = "full" => room.whiteboardDrawings = <<>>

\* the events after which an evicted room stays out of the registry
NeverCreates == Unrouted \cup {"disconnect"}

\* C31 as stated: after the sweep evicted a room whose connections are
\* still live, the next event of any kind from one of them, chat send,
\* reaction send and disconnect included, puts a fresh empty room under the
\* same id.
C31_EveryEventRecreates ==
  [][\A r \in RoomIds :
       FromEvicted(r) => r \in DOMAIN rooms' /\ FreshEmpty(rooms'[r])]_vars

\* C31 amended: a chat send, a reaction send and the disconnect leave the
\* evicted room out of the registry; a join puts a fresh room under the id
\* with the joiner as its only member and host; every other event puts a
\* fresh empty room under the id.
C31_RoutedEventRecreates ==
  [][\A r \in RoomIds :
       FromEvicted(r) =>
         IF last'.ev \in NeverCreates
         THEN DOMAIN rooms' = DOMAIN rooms
         ELSE IF last'.ev = "join-room"
         THEN /\ r \in DOMAIN rooms'
              /\ ~rooms'[r].locked
              /\ rooms'[r].password = Null
              /\ rooms'[r].hostId = last'.userId
              /\ MemberIds(rooms'[r]) = <<last'.userId>>
              /\ relay = "full" => rooms'[r].whiteboardDrawings = <<>>
         ELSE /\ r \in DOMAIN rooms'
              /\ FreshEmpty(rooms'[r])]_vars

\* C31 witness: the sweep evicted r1 while u1's connection was bound to it,
\* and that connection's hand:lower has just put an empty r1 back
C31_Witness ==
  /\ last.ev = "hand:lower"
  /\ last.roomId = "r1"
  /\ now = ExpiryTime
  /\ sock[last.sock].data.roomId = "r1"
  /\ "r1" \in DOMAIN rooms
  /\ FreshEmpty(rooms["r1"])
  /\ rooms["r1"].lastActivity = ExpiryTime

\* some open connection has its session bound to (u, r) and is subscribed
\* to the channel of r
LiveIn(u, r) ==
  \E s \in Sockets :
    /\ sock[s].connected
    /\ sock[s].data.userId = u
    /\ sock[s].data.roomId = r
    /\ r \in sock[s].channels

\* C32: in both relays, in every reachable state, participant u is among
\* the members of room r exactly when some open connection is bound to
\* (u, r) and subscribed to r's channel.
C32_MembersAreLive ==
  \A r \in RoomIds, u \in UserIds :
    (r \in DOMAIN rooms /\ u \in Range(MemberIds(rooms[r]))) <=> LiveIn(u, r)

(***************************************************************************)
(* End to end: the relay of Loading.tsx driven by MeetingRoom components,  *)
(* one per participant, all on the meeting MeetingId.                      *)
(***************************************************************************)
\* the order in which connection ids are handed out
SocketOrder == <<"s1", "s2", "s3">>

FreeSockets == {i \in DOMAIN SocketOrder : ~sock[SocketOrder[i]].connected}

\* the id of the next connection
FreeSocket ==
  SocketOrder[CHOOSE i \in FreeSockets : \A j \in FreeSockets : i <= j]

\* a component has nothing left to do by itself: its connection has joined,
\* the socket effect ran with the current isHost, and the server has handled
\* the disconnect of every connection it closed
Settled(u) ==
  /\ page[u].closing = {}
  /\ page[u].status = "open" =>
       /\ ~page[u].needJoin
       /\ page[u].isHost = (page[u].hostId = u)

Quiescent == \A u \in UserIds : Settled(u)

\* no participant has yet handed the meeting over or left it
Untouched ==
  \A u \in UserIds : page[u].asked = Null /\ page[u].status # "closed"

\* the participant opens the meeting: the component mounts and its socket
\* effect runs for the first time (isHost is false, hostId being null);
\* nobody arrives once a participant has handed over or left
Opens(u) ==
  /\ page[u].status = "new"
  /\ Untouched
  /\ FreeSockets # {}
  /\ Connected(FreeSocket)
  /\ page' = [page EXCEPT ![u] = [NewPage EXCEPT !.status = "open",
                                                 !.sock = FreeSocket,
                                                 !.needJoin = TRUE]]

\* socket.on('connect'): the component's connection emits its join-room
Joins(u) ==
  /\ page[u].status = "open"
  /\ page[u].needJoin
  /\ JoinRoom(page[u].sock, MeetingId, u, "n1", Null)

\* isHost, a dependency of the socket effect, has changed: the cleanup
\* disconnects the connection and the effect makes a new one
Reruns(u) ==
  /\ page[u].status = "open"
  /\ page[u].isHost # (page[u].hostId = u)
  /\ FreeSockets # {}
  /\ Connected(FreeSocket)
  /\ page' = [page EXCEPT ![u].closing = @ \cup {page[u].sock},
                          ![u].sock = FreeSocket,
                          ![u].needJoin = TRUE,
                          ![u].isHost = (page[u].hostId = u)]

\* the server handles the disconnect of a connection a component closed
Drops(u) == \E s \in page[u].closing : Disconnect(s)

\* handleLeaveRoom: the participant leaves the meeting
Leaves(u) ==
  /\ page[u].status = "open"
  /\ page' = [page EXCEPT ![u].status = "closed",
                          ![u].closing = @ \cup {page[u].sock},
                          ![u].sock = ""]
  /\ emitted' = <<>>
  /\ last' = Event("page:leave", "", MeetingId, u, "")
  /\ UNCHANGED <<relay, now, rooms, sock, joinOrder, lastAccepted, wired, client>>

\* the meeting as the server has it
Meeting == rooms[MeetingId]

\* handleMakeHost, by the meeting's host for one of its members, when every
\* component has settled; it is asked once
MakesHost(u, t) ==
  /\ page[u].status = "open"
  /\ Untouched
  /\ Quiescent
  /\ MeetingId \in DOMAIN rooms
  /\ Meeting.hostId = u
  /\ page[u].hostId = u
  /\ t # u
  /\ t \in Range(MemberIds(Meeting))
  /\ MakeHost(page[u].sock, MeetingId, t)

\* the two participants of a handover
Pair == {"u1", "u2"}

\* SpecHandover: two participants open the meeting, the host hands the
\* meeting over, and then nobody touches anything
NextHandover ==
  \/ \E u \in Pair : Opens(u)
  \/ \E u \in Pair : Joins(u)
  \/ \E u \in Pair : Reruns(u)
  \/ \E u \in Pair : Drops(u)
  \/ \E u \in Pair, t \in Pair : MakesHost(u, t)

SpecHandover == InitFull /\ [][NextHandover]_vars

\* C33: once the host has asked the server to make a member target the host
\* and nobody does anything further, whenever the disconnects and joins that
\* follow have all been handled the meeting's host is the target.
C33_HandoverEndsAtTarget ==
  \A u \in UserIds :
    (page[u].asked # Null /\ Quiescent) =>
      /\ MeetingId \in DOMAIN rooms
      /\ Meeting.hostId = page[u].asked

\* the host leaves a meeting of three or more, when every component has
\* settled; it is the one departure
HostDeparts(u) ==
  /\ Untouched
  /\ Quiescent
  /\ MeetingId \in DOMAIN rooms
  /\ Meeting.hostId = u
  /\ page[u].hostId = u
  /\ Len(Meeting.members) >= 3
  /\ Leaves(u)

\* a participant opens the meeting once those before have settled
OpensInTurn(u) == Quiescent /\ Opens(u)

\* SpecFailover: three participants open the meeting one after the other,
\* the host leaves, and then nobody touches anything
NextFailover ==
  \/ \E u \in UserIds : OpensInTurn(u)
  \/ \E u \in UserIds : Joins(u)
  \/ \E u \in UserIds : Reruns(u)
  \/ \E u \in UserIds : Drops(u)
  \/ \E u \in UserIds : HostDeparts(u)

SpecFailover == InitFull /\ [][NextFailover]_vars

\* what happens by itself does happen: a connection that came up emits its
\* join-room, an effect whose dependency changed runs again, and the server
\* handles the disconnect of a closed connection
FairFailover ==
  /\ SpecFailover
  /\ \A u \in UserIds : WF_vars(Joins(u))
  /\ \A u \in UserIds : WF_vars(Reruns(u))
  /\ \A u \in UserIds : WF_vars(Drops(u))

\* the host has left the meeting
HostGone == \E u \in UserIds : page[u].status = "closed"

\* exactly one member of the meeting is its host
OneHost ==
  /\ MeetingId \in DOMAIN rooms
  /\ Meeting.hostId \in Range(MemberIds(Meeting))

\* C34: after the host left a meeting with two or more remaining members and
\* nobody does anything further, the system eventually settles (no
\* disconnect, join or reconnect outstanding) with exactly one member as host.
C34_FailoverSettles == HostGone ~> (Quiescent /\ OneHost)

\* toggleWhiteboard by the host, when every component has settled: the
\* whiteboard is enabled for all, or disabled
Toggles(u) ==
  /\ page[u].status = "open"
  /\ page[u].hostId = u
  /\ Quiescent
  /\ IF page[u].whiteboardEnabled
     THEN WhiteboardDisable(page[u].sock, MeetingId)
     ELSE WhiteboardEnable(page[u].sock, MeetingId)

\* a participant whose board is shown and who may draw draws on it, when
\* every component has settled and the board has room
Draws(u) ==
  /\ page[u].status = "open"
  /\ page[u].localShowWhiteboard
  /\ page[u].canDraw
  /\ Len(page[u].board.drawings) < MaxClientDrawings
  /\ Quiescent
  /\ MeetingId \in DOMAIN rooms
  /\ WhiteboardDrawing(page[u].sock, MeetingId, PageDrawing,
                       IF Meeting.whiteboardDrawings = <<>> THEN "k1" ELSE "k2")

\* SpecKeep: two participants open the meeting, the host enables the
\* whiteboard, they draw, and the host hands the meeting over
NextKeep ==
  \/ \E u \in Pair : Opens(u)
  \/ \E u \in Pair : Joins(u)
  \/ \E u \in Pair : Reruns(u)
  \/ \E u \in Pair : Drops(u)
  \/ \E u \in Pair : Toggles(u)
  \/ \E u \in Pair : Draws(u)
  \/ \E u \in Pair, t \in Pair : MakesHost(u, t)

SpecKeep == InitFull /\ [][NextKeep]_vars

\* some participant's component is in the meeting before and after the step
SomeoneStays ==
  \E u \in UserIds : page[u].status = "open" /\ page'[u].status = "open"

\* the drawing log a join-room of the meeting would be replayed
Replayed(rs) ==
  IF MeetingId \in DOMAIN rs THEN rs[MeetingId].whiteboardDrawings ELSE <<>>

\* C35: while some participant's component stays in the meeting, a step that
\* is not itself a drawing or a clearing (a join, a make-host, a disconnect
\* with or without failover, a reconnect) leaves the meeting's drawing log as
\* it was: what is replayed afterwards is what was drawn before.
C35_HostChangeKeepsLog ==
  [][(SomeoneStays /\ last'.ev \notin {"whiteboard:drawing", "whiteboard:clear"})
     => Replayed(rooms') = Replayed(rooms)]_vars

\* handleAllowDrawing by the host for another participant, when every
\* component has settled and before anybody hands over or leaves
Allows(u, t, allow) ==
  /\ page[u].status = "open"
  /\ page[u].hostId = u
  /\ t # u
  /\ Quiescent
  /\ Untouched
  /\ WhiteboardAllowUser(page[u].sock, MeetingId, t, allow)

\* SpecGrant: three participants open the meeting one after the other, the
\* host grants and revokes drawing, the host leaves, and then nobody touches
\* anything
NextGrant ==
  \/ \E u \in UserIds : OpensInTurn(u)
  \/ \E u \in UserIds : Joins(u)
  \/ \E u \in UserIds : Reruns(u)
  \/ \E u \in UserIds : Drops(u)
  \/ \E u \in UserIds, t \in UserIds, allow \in BOOLEAN : Allows(u, t, allow)
  \/ \E u \in UserIds : HostDeparts(u)

SpecGrant == InitFull /\ [][NextGrant]_vars

\* the step is the failover that follows the host's departure: the server
\* handles the disconnect of the departed host's connection and promotes a
\* successor
FailsOver ==
  /\ last'.ev = "disconnect"
  /\ MeetingId \in DOMAIN rooms
  /\ Meeting.hostId = last'.userId
  /\ page[last'.userId].status = "closed"
  /\ MeetingId \in DOMAIN rooms'
  /\ rooms'[MeetingId].hostId # Null

\* the participants the failover leaves in the meeting
Remaining == Range(MemberIds(rooms'[MeetingId]))

\* C36: after the failover that follows the host's departure, every
\* remaining participant's component has canDraw exactly when the server has
\* the participant among the room's allowedUsers.
C36_FailoverKeepsCanDraw ==
  [][FailsOver =>
       \A u \in Remaining :
         page'[u].canDraw = (u \in rooms'[MeetingId].allowedUsers)]_vars

\* toggleWhiteboard by a participant who is not the host: it shows or hides
\* the board, if the host has enabled it; a hidden board is unmounted
Shows(u) ==
  /\ page[u].status = "open"
  /\ page[u].hostId # u
  /\ page[u].whiteboardEnabled
  /\ page' = [page EXCEPT ![u].localShowWhiteboard = ~@,
                          ![u].board = NewClient]
  /\ emitted' = <<>>
  /\ last' = Event("page:show", "", MeetingId, u, "")
  /\ UNCHANGED <<relay, now, rooms, sock, joinOrder, lastAccepted, wired, client>>

\* SpecLate: two participants open the meeting one after the other; the
\* host turns the whiteboard on and off, whoever may draws, a participant
\* hides and shows the board
NextLate ==
  \/ \E u \in Pair : OpensInTurn(u)
  \/ \E u \in Pair : Joins(u)
  \/ \E u \in Pair : Reruns(u)
  \/ \E u \in Pair : Drops(u)
  \/ \E u \in Pair : Toggles(u)
  \/ \E u \in Pair : Draws(u)
  \/ \E u \in Pair : Shows(u)

SpecLate == InitFull /\ [][NextLate]_vars

\* a participant who joined after drawings were made, has not drawn since,
\* and whose component, settled, shows the whiteboard
LateJoinerLooks(u) ==
  /\ page[u].status = "open"
  /\ page[u].late
  /\ ~page[u].board.drew
  /\ page[u].localShowWhiteboard
  /\ Quiescent
  /\ MeetingId \in DOMAIN rooms

\* C37: a participant who joined after drawings were made and whose
\* component shows the whiteboard has the server's drawing log as its
\* drawings list.
C37_LateJoinerSeesLog ==
  \A u \in UserIds :
    LateJoinerLooks(u) => page[u].board.drawings = Meeting.whiteboardDrawings

\* every event of the specifications above, in either relay
Next ==
  NextHost \/ NextLock \/ NextBoard \/ NextClock \/ NextGate \/ NextFrame
  \/ NextAbsent \/ NextRooms \/ NextReplay \/ NextChat \/ NextPage
  \/ NextIds \/ NextLeave \/ NextOutside
  \/ NextHandover \/ NextFailover \/ NextKeep \/ NextGrant \/ NextLate

Spec == Init /\ [][Next]_vars

====
